---- MODULE Spec2Model ----
(***************************************************************************)
(* Model of the StarlingX Debian build tools:                              *)
(*   build-tools/stx/debrepack.py        (class Parser and its helpers)    *)
(*   build-tools/stx/patch/patch_builder.py   (class PatchBuilder)         *)
(*                                                                         *)
(* Both programs are single threaded.  One behaviour of the model is a     *)
(* sequence of calls of their public operations; every call is cut into    *)
(* the steps between which an external tool (curl, dget, patch, ...) can   *)
(* fail.  The process working directory is process-wide state and lives    *)
(* on from one call to the next.                                           *)
(***************************************************************************)
EXTENDS Integers, Sequences, FiniteSets, TLC

(***************************************************************************)
(* Bounds of the model.                                                    *)
(***************************************************************************)
MaxDlFiles == 2
MaxSeries == 2
MaxCount == 1
MaxMembers == 3
MaxHandlers == 1
MaxDebMembers == 3

(***************************************************************************)
(* File contents.  A file is absent (Absent) or holds one of the contents  *)
(* of Contents; Declared is the content the metadata's digests were taken  *)
(* from, Other is any other content (a corrupt or partial download).       *)
(***************************************************************************)
Absent == "absent"
Declared == "declared"
Other == "other"
Contents == {Declared, Other}

CheckCmds == {"sha256sum", "md5sum"}

\* Directories the process can be in.
CallerDir == "caller"
SaveTo == "saveto"
PackDir == "packdir"
SrcDir == "srcdir"
TmpDir == "tmpdir"

VARIABLES
    op,         \* the operation being executed, "idle" between calls
    pc,         \* the position inside the operation
    outcome,    \* "running", "returned" or "raised"
    cwd,        \* os.getcwd(): the process working directory
    pwd,        \* the local variable pwd of the running operation
    cwd0,       \* history: the working directory when the operation was entered
    meta_data,  \* self.meta_data, as far as download reads it
    files,      \* the files of the mirror directory saveto: name -> content
    files0,     \* history: files when download was entered
    idx,        \* the position of the loop over meta_data['dl_files']
    attempts,   \* history: the download attempts made for the artifact handled last, in order
    fetched,    \* history: the artifacts download had to fetch
    verified,   \* history: the artifacts whose digest matched after their last attempt
    failure,    \* history: why and on which artifact a raising download failed
    todo,       \* the methods the running operation has still to run, in order
    ran,        \* history: the methods the running operation has run, in order
    deb_format, \* what dpkg-source --print-format printed for the source tree
    series,     \* the series file the running method read
    tree,       \* the source tree srcdir, as far as the patch methods touch it
    tree0,      \* history: tree when the running method was entered
    metadata,   \* self.metadata of the PatchBuilder, as far as build_patch reads it
    dl_dir,     \* the debs of the download area
    tmpdir,     \* the files of the temporary working directory
    tmp_folder, \* the temporary folder of the 'software' scripts
    patch_full_path, \* the members of the .patch file written
    result,     \* what build_patch returned
    contents,   \* the contents of the files of tmpdir when they are signed
    signature,  \* the value written into the mdsum signature file
    revision_data, \* self.meta_data["revision"], as far as set_revision reads it
    git,        \* what the git queries of set_revision print
    revision,   \* what set_revision did: the queries it ran, what it returned
    changelog,  \* the changelog entry package wrote with dch
    built,      \* whether package ran dpkg-buildpackage to its end
    output,     \* the files package copied to the output directory
    tarball,    \* the member names of the tarball extract_tarball read
    strip_components, \* whether tar ran with --strip-components 1
    srcdir,     \* the names tar extracted into the source directory
    handlers    \* the number of per-package file handlers of self.logger

dlvars == <<meta_data, files, files0, idx, attempts, fetched, verified>>
ctlvars == <<op, pc, outcome, cwd, pwd, cwd0>>
patchvars == <<deb_format, series, tree, tree0>>
pkgvars == <<todo, ran>>
revvars == <<revision_data, git, revision>>
tarvars == <<tarball, strip_components, srcdir>>
outvars == <<changelog, built, output, tarvars, handlers>>
sigvars == <<contents, signature>>
bpvars == <<metadata, dl_dir, tmpdir, tmp_folder, patch_full_path, result, sigvars>>
vars == <<ctlvars, failure, dlvars, pkgvars, patchvars, bpvars, revvars, outvars>>

(***************************************************************************)
(* debrepack.py helpers                                                    *)
(***************************************************************************)

\* The digest `cmd file | cut -d" " -f1` prints for a file of content c.
DigestOf(cmd, c) == <<cmd, c>>

\* checksum(dl_file, checksum, cmd, logger) with the comparison inverted.
ChecksumInverted(content, check_sum, cmd) ==
    /\ content # Absent
    /\ DigestOf(cmd, content) # check_sum

\* checksum(dl_file, checksum, cmd, logger): False when the file does not
\* exist or its digest differs from the declared one.
Checksum(content, check_sum, cmd) ==
    IF content = Absent THEN FALSE
    ELSE IF DigestOf(cmd, content) # check_sum THEN FALSE
    ELSE TRUE

\* checksum_dsc(dsc_file, logger): the description file exists and every
\* member it lists has the sha256 digest the description file states.  A
\* description file of content c lists its member `orig` with the digest of
\* an orig of content c.
ChecksumDsc(fs) ==
    IF fs[<<"dsc", 0>>] = Absent THEN FALSE
    ELSE Checksum(fs[<<"orig", 0>>], DigestOf("sha256sum", fs[<<"dsc", 0>>]), "sha256sum")

(***************************************************************************)
(* External collaborators of download.                                     *)
(***************************************************************************)

\* What one run of an external transfer tool (curl, dget, apt-get) can do to
\* its target: exit 0 having written some content, or exit non-zero having
\* left the target as it was ("keep") or partially written (Other).
ToolResults ==
    {[ok |-> TRUE, left |-> c] : c \in Contents}
        \cup {[ok |-> FALSE, left |-> l] : l \in {"keep", Other}}

After(old, r) == IF r.left = "keep" THEN old ELSE r.left

\* utils.get_download_url(url, strategy): the primary URL and, when the
\* strategy has one for this URL, the alternative URL.
GetDownloadUrl(hasAlt) ==
    <<"primary", IF hasAlt THEN "fallback" ELSE "none">>

\* The download block with the fallback tried after any primary download,
\* also one that did not raise.
TryDownloadAlways(old, urls, r1, r2) ==
    IF urls[2] # "none"
    THEN [raised |-> ~r2.ok,
          content |-> After(After(old, r1), r2),
          tried |-> <<urls[1], urls[2]>>]
    ELSE [raised |-> ~r1.ok,
          content |-> After(old, r1),
          tried |-> <<urls[1]>>]

\* The download block with the fallback never tried.
TryDownloadNoFallback(old, urls, r1, r2) ==
    [raised |-> ~r1.ok, content |-> After(old, r1), tried |-> <<urls[1]>>]

\* The block
\*     if alt_dl_url:
\*         try: download(dl_url, ...)
\*         except: download(alt_dl_url, ...)
\*     else: download(dl_url, ...)
\* of Parser.download: r1 and r2 are what the transfer tool does on the
\* primary and on the alternative URL.  `raised` says the block raised,
\* `content` is the target afterwards, `tried` the URLs used, in order.
TryDownload(old, urls, r1, r2) ==
    IF urls[2] # "none"
    THEN IF r1.ok
         THEN [raised |-> FALSE, content |-> After(old, r1), tried |-> <<urls[1]>>]
         ELSE [raised |-> ~r2.ok,
               content |-> After(After(old, r1), r2),
               tried |-> <<urls[1], urls[2]>>]
    ELSE [raised |-> ~r1.ok, content |-> After(old, r1), tried |-> <<urls[1]>>]

(***************************************************************************)
(* The inputs of download: meta_data.yaml and the mirror directory.        *)
(***************************************************************************)
\* File names of the mirror directory: the i-th dl_files entry, the dl_path
\* archive, the package description file and the member it lists.
DlFile(i) == <<"dl_files", i>>
Tarball == <<"dl_path", 0>>
Dsc == <<"dsc", 0>>
Orig == <<"orig", 0>>
FileNames == {DlFile(i) : i \in 1..MaxDlFiles} \cup {Tarball, Dsc, Orig}

\* dl_files: one entry per file, in the order of the yaml mapping; the entry
\* says which digest it declares.  dl_path: "none" when the key is absent,
\* else the digest command its entry leads to.
DlFilesOf(n) == [1..n -> CheckCmds]

\* The origin keys are read in the order dl_path, archive, src_path and
\* dl_hook (lines 680, 702, 716); a key the chain does not come to is left
\* out of the metadata drawn.
OriginKeys ==
    {[dl_path |-> p, archive |-> a, src_path |-> s, dl_hook |-> h] :
        p \in {"none"} \cup CheckCmds, a \in BOOLEAN, s \in BOOLEAN, h \in BOOLEAN}

OriginKeysRead ==
    {k \in OriginKeys :
        /\ k.dl_path # "none" => ~k.archive
        /\ (k.dl_path # "none" \/ k.archive) => (~k.src_path /\ ~k.dl_hook)}

MetaDatas ==
    {[dl_files |-> d, dl_path |-> k.dl_path, archive |-> k.archive,
      src_path |-> k.src_path, dl_hook |-> k.dl_hook] :
        d \in UNION {DlFilesOf(n) : n \in 0..MaxDlFiles},
        k \in OriginKeysRead}

NoMeta ==
    [dl_files |-> <<>>, dl_path |-> "none", archive |-> FALSE,
     src_path |-> FALSE, dl_hook |-> FALSE]

NoFiles == [f \in FileNames |-> Absent]

\* The files download reads under the metadata md.
ReadBy(md) ==
    {DlFile(i) : i \in 1..Len(md.dl_files)}
        \cup (IF md.dl_path # "none" THEN {Tarball} ELSE {})
        \cup (IF md.dl_path = "none" /\ (md.archive \/ (~md.src_path /\ ~md.dl_hook))
              THEN {Dsc, Orig} ELSE {})

\* The mirror directories download can find: the files it does not read are
\* left out (Absent).
FileStates(md) ==
    {fs \in [FileNames -> {Absent} \cup Contents] :
        \A f \in FileNames \ ReadBy(md) : fs[f] = Absent}

\* The digest command and the digest the metadata declares for file f.
CheckCmdOf(md, f) == IF f = Tarball THEN md.dl_path ELSE md.dl_files[f[2]]
CheckSumOf(md, f) == DigestOf(CheckCmdOf(md, f), Declared)

NoFile == <<"none", 0>>
NoFailure == [why |-> "none", file |-> NoFile]

\* The files of the metadata that come with a declared digest.
DeclaredFiles(md) ==
    {DlFile(i) : i \in 1..Len(md.dl_files)}
        \cup (IF md.dl_path # "none" THEN {Tarball} ELSE {})

\* One entry of the history `attempts` per URL tried.
AttemptsOf(f, old, urls, t, r1, r2) ==
    [i \in 1..Len(t.tried) |->
        [file |-> f, url |-> t.tried[i], alt |-> urls[2] # "none",
         ok |-> IF i = 1 THEN r1.ok ELSE r2.ok,
         content |-> IF i = 1 THEN After(old, r1) ELSE After(After(old, r1), r2)]]

(***************************************************************************)
(* Parser.download(pkgpath, mirror)                                        *)
(***************************************************************************)

Raise(why, f) ==
    /\ outcome' = "raised"
    /\ pc' = "done"
    /\ failure' = [why |-> why, file |-> f]

\* os.chdir(pwd) and return.
ReturnRestoring ==
    /\ cwd' = pwd
    /\ outcome' = "returned"
    /\ pc' = "done"

\* Lines 645-655: setup, the mirror check, mkdir saveto, chdir(saveto).
\* The inputs are the package's metadata, the mirror's files, whether setup
\* succeeds and whether the mirror directory exists.
DownloadEnter ==
    /\ UNCHANGED <<pkgvars, patchvars, bpvars, revvars, outvars>>
    /\ pc = "idle"
    /\ op' = "download"
    /\ cwd0' = cwd
    /\ idx' = 1
    /\ attempts' = <<>>
    /\ fetched' = {}
    /\ verified' = {}
    /\ \E setup_ok \in BOOLEAN, mirror \in BOOLEAN :
        IF ~setup_ok THEN
            /\ Raise("setup", NoFile)
            /\ UNCHANGED <<cwd, pwd, meta_data, files, files0>>
        ELSE \E md \in MetaDatas :
            /\ meta_data' = md
            /\ IF ~mirror THEN
                    /\ Raise("mirror", NoFile)
                    /\ UNCHANGED <<cwd, pwd, files, files0>>
               ELSE \E fs \in FileStates(md) :
                    /\ files' = fs
                    /\ files0' = fs
                    /\ pwd' = cwd
                    /\ cwd' = SaveTo
                    /\ pc' = "dl_files"
                    /\ outcome' = "running"
                    /\ failure' = NoFailure

\* The body shared by the dl_files loop (lines 658-678) and the dl_path
\* branch (lines 681-700): the check of the local file, the download block
\* and the check of what was downloaded.  `proceed` is what follows when the
\* file is in place.
FetchFile(f, hasAlt, r1, r2, proceed) ==
    LET check_cmd == CheckCmdOf(meta_data, f)
        check_sum == CheckSumOf(meta_data, f)
        urls == GetDownloadUrl(hasAlt)
        t == TryDownload(files[f], urls, r1, r2)
    IN  IF Checksum(files[f], check_sum, check_cmd) THEN
            /\ proceed
            /\ attempts' = <<>>
            /\ UNCHANGED <<files, fetched, verified, failure>>
        ELSE
            /\ files' = [files EXCEPT ![f] = t.content]
            /\ attempts' = AttemptsOf(f, files[f], urls, t, r1, r2)
            /\ fetched' = fetched \cup {f}
            /\ IF t.raised THEN
                    /\ Raise("transport", f)
                    /\ UNCHANGED <<cwd, idx, verified>>
               ELSE IF ~Checksum(t.content, check_sum, check_cmd) THEN
                    /\ Raise("mismatch", f)
                    /\ UNCHANGED <<cwd, idx, verified>>
               ELSE
                    /\ verified' = verified \cup {f}
                    /\ failure' = failure
                    /\ proceed

\* Lines 657-678: one round of the loop over meta_data['dl_files'].
DownloadDlFile ==
    /\ UNCHANGED <<pkgvars, patchvars, bpvars, revvars, outvars>>
    /\ op = "download" /\ pc = "dl_files"
    /\ idx <= Len(meta_data.dl_files)
    /\ \E hasAlt \in BOOLEAN, r1 \in ToolResults, r2 \in ToolResults :
        FetchFile(DlFile(idx), hasAlt, r1, r2,
                  /\ idx' = idx + 1
                  /\ UNCHANGED <<pc, outcome, cwd>>)
    /\ UNCHANGED <<op, pwd, cwd0, meta_data, files0>>

\* Lines 680-700 and 743: the dl_path archive.
DownloadDlPath ==
    /\ UNCHANGED <<pkgvars, patchvars, bpvars, revvars, outvars>>
    /\ op = "download" /\ pc = "dl_files"
    /\ idx > Len(meta_data.dl_files)
    /\ meta_data.dl_path # "none"
    /\ \E hasAlt \in BOOLEAN, r1 \in ToolResults, r2 \in ToolResults :
        FetchFile(Tarball, hasAlt, r1, r2,
                  /\ ReturnRestoring
                  /\ UNCHANGED idx)
    /\ UNCHANGED <<op, pwd, cwd0, meta_data, files0>>

\* What a run of dget or apt-get source leaves of the description file and
\* its member: the tool writes the member like any transfer, and a run that
\* exits 0 has written the description file.
DscFilesAfter(fs, t, wrote) ==
    [fs EXCEPT ![Orig] = t.content,
               ![Dsc] = IF wrote THEN Declared ELSE fs[Dsc]]

\* Lines 702-714 and 743: the description file of the declared archive.
DownloadArchive ==
    /\ UNCHANGED <<pkgvars, patchvars, bpvars, revvars, outvars>>
    /\ op = "download" /\ pc = "dl_files"
    /\ idx > Len(meta_data.dl_files)
    /\ meta_data.dl_path = "none"
    /\ meta_data.archive
    /\ IF ChecksumDsc(files) = FALSE THEN
            \E hasAlt \in BOOLEAN, r1 \in ToolResults, r2 \in ToolResults :
                LET urls == GetDownloadUrl(hasAlt)
                    t == TryDownload(files[Orig], urls, r1, r2)
                IN  /\ files' = DscFilesAfter(files, t, ~t.raised)
                    /\ attempts' = AttemptsOf(Dsc, files[Orig], urls, t, r1, r2)
                    /\ fetched' = fetched \cup {Dsc}
                    /\ IF t.raised THEN
                            /\ Raise("transport", Dsc)
                            /\ UNCHANGED cwd
                       ELSE
                            /\ ReturnRestoring
                            /\ failure' = failure
       ELSE
            /\ ReturnRestoring
            /\ UNCHANGED <<files, attempts, fetched, failure>>
    /\ UNCHANGED <<op, pwd, cwd0, meta_data, files0, idx, verified>>

\* Lines 716-743: the description file of the package source (apt).  The
\* inputs: whether apt knows the version, what apt-get source does, whether
\* a source repository is configured and whether the upload to it succeeds.
DownloadAptSource ==
    /\ UNCHANGED <<pkgvars, patchvars, bpvars, revvars, outvars>>
    /\ op = "download" /\ pc = "dl_files"
    /\ idx > Len(meta_data.dl_files)
    /\ meta_data.dl_path = "none"
    /\ ~meta_data.archive
    /\ ~meta_data.src_path /\ ~meta_data.dl_hook
    /\ IF ChecksumDsc(files) = TRUE THEN
            /\ ReturnRestoring
            /\ UNCHANGED <<files, attempts, fetched, failure>>
       ELSE
            \E source_lookup \in BOOLEAN, r1 \in ToolResults,
               srcrepo \in BOOLEAN, upload_ok \in BOOLEAN :
                LET urls == <<"primary", "none">>
                    t == TryDownload(files[Orig], urls, r1, r1)
                IN  IF ~source_lookup THEN
                        /\ Raise("nosource", Dsc)
                        /\ UNCHANGED <<cwd, files, attempts, fetched>>
                    ELSE
                        /\ files' = DscFilesAfter(files, t, ~t.raised)
                        /\ attempts' = AttemptsOf(Dsc, files[Orig], urls, t, r1, r1)
                        /\ fetched' = fetched \cup {Dsc}
                        /\ IF t.raised THEN
                                /\ Raise("transport", Dsc)
                                /\ UNCHANGED cwd
                           ELSE IF srcrepo /\ ~upload_ok THEN
                                /\ Raise("upload", Dsc)
                                /\ UNCHANGED cwd
                           ELSE
                                /\ ReturnRestoring
                                /\ failure' = failure
    /\ UNCHANGED <<op, pwd, cwd0, meta_data, files0, idx, verified>>

\* Lines 680-743 when no branch of the if/elif chain applies (src_path or
\* dl_hook without dl_path and archive): os.chdir(pwd).
DownloadNothingMore ==
    /\ UNCHANGED <<pkgvars, patchvars, bpvars, revvars, outvars>>
    /\ op = "download" /\ pc = "dl_files"
    /\ idx > Len(meta_data.dl_files)
    /\ meta_data.dl_path = "none"
    /\ ~meta_data.archive
    /\ meta_data.src_path \/ meta_data.dl_hook
    /\ ReturnRestoring
    /\ UNCHANGED <<op, pwd, cwd0, failure, dlvars>>

Download ==
    \/ DownloadEnter
    \/ DownloadDlFile
    \/ DownloadDlPath
    \/ DownloadArchive
    \/ DownloadAptSource
    \/ DownloadNothingMore

(***************************************************************************)
(* Series files and the source tree.                                       *)
(*                                                                         *)
(* A text file is a sequence of tokens: a patch name ("p1", "p2", "u1"),   *)
(* a blank " ", the comment sign "#" or the line end "\n".                 *)
(***************************************************************************)
NoFileRec == [exists |-> FALSE, bytes |-> <<>>]
FileOf(b) == [exists |-> TRUE, bytes |-> b]

\* The lines a series file of a package is made of: a patch name, a patch
\* name between blanks, an empty line and a comment.
Lines ==
    { <<"p1", "\n">>, <<" ", "p2", " ", "\n">>, <<"\n">>, <<"#", "p1", "\n">> }

RECURSIVE Flatten(_)
Flatten(ls) == IF ls = <<>> THEN <<>> ELSE Head(ls) \o Flatten(Tail(ls))

SeriesFiles ==
    {FileOf(Flatten(ls)) : ls \in UNION {[1..n -> Lines] : n \in 0..MaxSeries}}

\* f.readlines(): the lines of the file, each with its line end.
RECURSIVE ReadLines(_, _)
ReadLines(bytes, line) ==
    IF bytes = <<>> THEN (IF line = <<>> THEN <<>> ELSE <<line>>)
    ELSE IF Head(bytes) = "\n"
         THEN <<Append(line, "\n")>> \o ReadLines(Tail(bytes), <<>>)
         ELSE ReadLines(Tail(bytes), Append(line, Head(bytes)))

Space(t) == t \in {" ", "\n"}

RECURSIVE LStrip(_)
LStrip(l) == IF l # <<>> /\ Space(Head(l)) THEN LStrip(Tail(l)) ELSE l

RECURSIVE RStrip(_)
RStrip(l) ==
    IF l # <<>> /\ Space(l[Len(l)]) THEN RStrip(SubSeq(l, 1, Len(l) - 1)) ELSE l

\* str.strip()
Strip(l) == RStrip(LStrip(l))

\* The loop head without the strip: the line is taken as it was read, less
\* its line end, and only empty lines and lines whose first character is #
\* are skipped.
RECURSIVE PatchFilesUnstripped(_)
PatchFilesUnstripped(patches) ==
    IF patches = <<>> THEN <<>>
    ELSE LET patch_file == SelectSeq(Head(patches), LAMBDA t : t # "\n")
         IN  IF (patch_file # <<>> /\ Head(patch_file) = "#") \/ patch_file = <<>>
             THEN PatchFilesUnstripped(Tail(patches))
             ELSE <<patch_file>> \o PatchFilesUnstripped(Tail(patches))

\* The loop head shared by update_deb_folder, apply_src_patches and
\* apply_deb_patches: patch_file = patch.strip(); comment lines and blank
\* lines are skipped.
RECURSIVE PatchFiles(_)
PatchFiles(patches) ==
    IF patches = <<>> THEN <<>>
    ELSE LET patch_file == Strip(Head(patches))
         IN  IF (patch_file # <<>> /\ Head(patch_file) = "#") \/ patch_file = <<>>
             THEN PatchFiles(Tail(patches))
             ELSE <<patch_file>> \o PatchFiles(Tail(patches))

\* What dpkg-source --print-format can print: the content of
\* debian/source/format, or 1.0 when there is none.
DebFormats ==
    { <<"1.0">>, <<"3.0", "(quilt)">>, <<"3.0", "(native)">>,
      <<"3.0", "(git)">>, <<"2.0">>, <<"2.0", "(quilt)">> }

\* format_type.strip("()")
StripParens(t) ==
    CASE t = "(quilt)" -> "quilt"
      [] t = "(native)" -> "native"
      [] t = "(git)" -> "git"
      [] OTHER -> t

\* Parser.set_deb_format: (format_ver, format_type), or a ValueError when
\* the output does not split into two words.
SetDebFormat(fmt) ==
    IF fmt[1] = "1.0"
    THEN [raised |-> FALSE, format_ver |-> "1.0", format_type |-> "None"]
    ELSE IF Len(fmt) # 2
    THEN [raised |-> TRUE, format_ver |-> "None", format_type |-> "None"]
    ELSE [raised |-> FALSE, format_ver |-> fmt[1], format_type |-> StripParens(fmt[2])]

\* The source tree: whether srcdir/debian and srcdir/debian/patches exist,
\* the file srcdir/debian/patches/series, the patch files copied into
\* srcdir/debian/patches, the patches applied to the working files by the
\* running method, in order, and the patches it ran the patch tool on, in
\* order.
TreeOf(d, p, sf) ==
    [debian |-> d, patches_dir |-> p, series |-> sf, copied |-> {},
     applied |-> <<>>, tried |-> <<>>]

TreeStates ==
    { TreeOf(FALSE, FALSE, NoFileRec), TreeOf(TRUE, FALSE, NoFileRec),
      TreeOf(TRUE, TRUE, NoFileRec), TreeOf(TRUE, TRUE, FileOf(<<"u1", "\n">>)) }

NoTree == TreeOf(FALSE, FALSE, NoFileRec)
NoFormat == <<"none">>

(***************************************************************************)
(* Control: the methods of one operation run one after the other.          *)
(***************************************************************************)

\* The method at the head of todo is over and did not raise.
MethodReturns(m) ==
    /\ ran' = Append(ran, m)
    /\ todo' = Tail(todo)
    /\ IF Tail(todo) = <<>>
       THEN pc' = "done" /\ outcome' = "returned"
       ELSE pc' = "todo" /\ outcome' = "running"

\* The method at the head of todo raised: the operation is over.
MethodRaises(m, why) ==
    /\ ran' = Append(ran, m)
    /\ todo' = todo
    /\ pc' = "done"
    /\ outcome' = "raised"
    /\ failure' = [why |-> why, file |-> NoFile]

AtMethod(m) == pc = "todo" /\ todo # <<>> /\ Head(todo) = m

(***************************************************************************)
(* The patch methods of Parser.                                            *)
(***************************************************************************)

\* run_shell_cmd('patch -p1 < %s' % patch): the patch is applied to the
\* working files.
PatchDirectly(t, patch_file) ==
    [t EXCEPT !.applied = Append(@, patch_file), !.tried = Append(@, patch_file)]

\* The same, the patch tool exiting non-zero: run_shell_cmd raises.
PatchFails(t, patch_file) == [t EXCEPT !.tried = Append(@, patch_file)]

\* RegisterInSeries writing the series file anew ('w' for 'a').
RegisterInSeriesTruncating(t, patch_file) ==
    [t EXCEPT !.copied = @ \cup {patch_file},
              !.series = FileOf(patch_file \o <<"\n">>)]

\* Lines 513-516: the patch file is copied into srcdir/debian/patches and
\* its name is appended, with a line end, to the series file of the tree
\* (open(series_file, 'a') creates the file when it is missing).
RegisterInSeries(t, patch_file) ==
    [t EXCEPT !.copied = @ \cup {patch_file},
              !.series = FileOf(@.bytes \o patch_file \o <<"\n">>)]

\* The loop of lines 426-433 and 537-544 going on with the next patch
\* when the patch tool fails, and raising at its end.
RECURSIVE DirectLoopContinuing(_, _, _, _)
DirectLoopContinuing(names, k, t, failAt) ==
    IF k > Len(names)
    THEN [raised |-> failAt \in 1..Len(names),
          why |-> IF failAt \in 1..Len(names) THEN "patch" ELSE "none", tree |-> t]
    ELSE IF failAt = k
         THEN DirectLoopContinuing(names, k + 1, PatchFails(t, names[k]), failAt)
         ELSE DirectLoopContinuing(names, k + 1, PatchDirectly(t, names[k]), failAt)

\* The loop of lines 426-433 and 537-544: every patch is applied directly.
\* failAt is the position of the patch at which the patch tool exits
\* non-zero (0: at none).
RECURSIVE DirectLoop(_, _, _, _)
DirectLoop(names, k, t, failAt) ==
    IF k > Len(names) THEN [raised |-> FALSE, why |-> "none", tree |-> t]
    ELSE IF failAt = k
         THEN [raised |-> TRUE, why |-> "patch", tree |-> PatchFails(t, names[k])]
         ELSE DirectLoop(names, k + 1, PatchDirectly(t, names[k]), failAt)

\* The loop of lines 502-521 of apply_src_patches.  failAt is the position
\* of the patch at which the external tool (patch, cp) exits non-zero.
RECURSIVE SrcPatchLoop(_, _, _, _, _)
SrcPatchLoop(names, k, fmt, t, failAt) ==
    IF k > Len(names) THEN [raised |-> FALSE, why |-> "none", tree |-> t]
    ELSE IF fmt.format_ver = "1.0" THEN
        IF failAt = k
        THEN [raised |-> TRUE, why |-> "patch", tree |-> PatchFails(t, names[k])]
        ELSE SrcPatchLoop(names, k + 1, fmt, PatchDirectly(t, names[k]), failAt)
    ELSE IF fmt.format_type = "quilt" THEN
        IF failAt = k THEN [raised |-> TRUE, why |-> "cp", tree |-> t]
        ELSE SrcPatchLoop(names, k + 1, fmt, RegisterInSeries(t, names[k]), failAt)
    ELSE IF fmt.format_type = "native" THEN
        IF failAt = k
        THEN [raised |-> TRUE, why |-> "patch", tree |-> PatchFails(t, names[k])]
        ELSE SrcPatchLoop(names, k + 1, fmt, PatchDirectly(t, names[k]), failAt)
    ELSE [raised |-> TRUE, why |-> "format", tree |-> t]

\* Lines 496-498: the patches directory of the tree and an empty series
\* file are made when the directory is missing.
MakePatchesFolder(t) ==
    IF ~t.patches_dir
    THEN [t EXCEPT !.patches_dir = TRUE, !.series = FileOf(<<>>)]
    ELSE t

\* The method raised before it changed the working directory.
RaisesBeforeChdir(m, why) ==
    /\ MethodRaises(m, why)
    /\ UNCHANGED <<cwd, pwd>>

\* The method raised between os.chdir(srcdir) and os.chdir(pwd).
RaisesInside(m, why, dir) ==
    /\ MethodRaises(m, why)
    /\ pwd' = cwd
    /\ cwd' = dir

\* The method did pwd = os.getcwd(), os.chdir(dir), ..., os.chdir(pwd) and
\* returned.
\* A return without the os.chdir(pwd) before it.
ReturnsInside(m) ==
    /\ MethodReturns(m)
    /\ pwd' = cwd
    /\ cwd' = IF m \in {"copy_custom_files", "run_dl_hook", "dummy_package"}
              THEN PackDir
              ELSE SrcDir
    /\ failure' = failure

ReturnsRestored(m) ==
    /\ MethodReturns(m)
    /\ pwd' = cwd
    /\ cwd' = cwd
    /\ failure' = failure

\* The method returned without changing the working directory.
ReturnsEarly(m) ==
    /\ MethodReturns(m)
    /\ UNCHANGED <<cwd, pwd, failure>>

\* The method leaves the patch state: what dpkg-source printed, the series
\* file read, the tree at entry and the tree now.
PatchState(fmt_out, sf, t0, t) ==
    /\ deb_format' = fmt_out
    /\ series' = sf
    /\ tree0' = t0
    /\ tree' = t

\* The method returns.  When the operation goes on with its next method
\* the patch state is not followed further: the next method draws the tree
\* it finds.
PatchStateReturned(fmt_out, sf, t0, t) ==
    IF Tail(todo) = <<>>
    THEN PatchState(fmt_out, sf, t0, t)
    ELSE PatchState(NoFormat, NoFileRec, NoTree, NoTree)

\* Parser.apply_src_patches (lines 482-524).  The inputs: what dpkg-source
\* prints (NoFormat: it exits non-zero), the series file of the package's
\* patches, the source tree, and the patch at which a tool fails (0: none).
ApplySrcPatches ==
    /\ AtMethod("apply_src_patches")
    /\ \E fmt_out \in DebFormats \cup {NoFormat}, t0 \in TreeStates :
        LET m == "apply_src_patches"
            fmt == SetDebFormat(fmt_out)
        IN  IF fmt_out = NoFormat THEN
                /\ RaisesBeforeChdir(m, "tool")
                /\ PatchState(fmt_out, NoFileRec, t0, t0)
            ELSE IF fmt.raised THEN
                /\ RaisesBeforeChdir(m, "split")
                /\ PatchState(fmt_out, NoFileRec, t0, t0)
            ELSE \E sf \in SeriesFiles \cup {NoFileRec} :
                LET names == PatchFiles(ReadLines(sf.bytes, <<>>))
                IN  IF ~sf.exists THEN
                        /\ ReturnsEarly(m)
                        /\ PatchStateReturned(fmt_out, sf, t0, t0)
                    ELSE IF ~t0.patches_dir /\ ~t0.debian THEN
                        /\ RaisesBeforeChdir(m, "mkdir")
                        /\ PatchState(fmt_out, sf, t0, t0)
                    ELSE \E failAt \in 0..Len(names) :
                        LET r == SrcPatchLoop(names, 1, fmt, MakePatchesFolder(t0), failAt)
                        IN  IF r.raised THEN
                                /\ RaisesInside(m, r.why, SrcDir)
                                /\ PatchState(fmt_out, sf, t0, r.tree)
                            ELSE
                                /\ ReturnsRestored(m)
                                /\ PatchStateReturned(fmt_out, sf, t0, r.tree)
    /\ UNCHANGED <<op, cwd0, dlvars, bpvars, revvars, outvars>>

\* What cp -r metadata/* srcdir/debian leaves of the tree: the debian
\* directory is there, and a patches/series of the overlay replaces the
\* one of the tree, the patch files coming with it.
Overlay(t, sf) ==
    IF sf.exists
    THEN [t EXCEPT !.debian = TRUE, !.patches_dir = TRUE, !.series = sf,
                   !.copied = @ \cup
                        {PatchFiles(ReadLines(sf.bytes, <<>>))[i] :
                            i \in 1..Len(PatchFiles(ReadLines(sf.bytes, <<>>)))}]
    ELSE [t EXCEPT !.debian = TRUE]

\* Parser.update_deb_folder (lines 398-436).  The inputs: the source tree,
\* whether the package has a deb_folder and whether its cp succeeds, its
\* patches/series, what dpkg-source prints and the patch at which the patch
\* tool fails (0: none).
UpdateDebFolder ==
    /\ AtMethod("update_deb_folder")
    /\ \E t0 \in TreeStates, step \in {"isdir", "cp", "ok"} :
        LET m == "update_deb_folder"
        IN  IF step = "isdir" THEN
                /\ ReturnsEarly(m)
                /\ PatchStateReturned(NoFormat, NoFileRec, t0, t0)
            ELSE IF step = "cp" THEN
                /\ RaisesBeforeChdir(m, "cp")
                /\ PatchState(NoFormat, NoFileRec, t0, [t0 EXCEPT !.debian = TRUE])
            ELSE \E sf \in SeriesFiles \cup {NoFileRec} :
                LET names == PatchFiles(ReadLines(sf.bytes, <<>>))
                    t1 == Overlay(t0, sf)
                IN  IF ~sf.exists THEN
                        /\ ReturnsEarly(m)
                        /\ PatchStateReturned(NoFormat, sf, t0, t1)
                    ELSE \E fmt_out \in DebFormats \cup {NoFormat} :
                        LET fmt == SetDebFormat(fmt_out)
                        IN  IF fmt_out = NoFormat THEN
                                /\ RaisesBeforeChdir(m, "tool")
                                /\ PatchState(fmt_out, sf, t0, t1)
                            ELSE IF fmt.raised THEN
                                /\ RaisesBeforeChdir(m, "split")
                                /\ PatchState(fmt_out, sf, t0, t1)
                            ELSE IF fmt.format_type = "quilt" /\ fmt.format_ver = "3.0" THEN
                                /\ ReturnsEarly(m)
                                /\ PatchStateReturned(fmt_out, sf, t0, t1)
                            ELSE \E failAt \in 0..Len(names) :
                                LET r == DirectLoop(names, 1, t1, failAt)
                                IN  IF r.raised THEN
                                        /\ RaisesInside(m, r.why, SrcDir)
                                        /\ PatchState(fmt_out, sf, t0, r.tree)
                                    ELSE
                                        /\ ReturnsRestored(m)
                                        /\ PatchStateReturned(fmt_out, sf, t0, r.tree)
    /\ UNCHANGED <<op, cwd0, dlvars, bpvars, revvars, outvars>>

\* Parser.apply_deb_patches (lines 526-547).  The inputs: the series file
\* of the package's deb_patches and the patch at which the patch tool
\* fails (0: none).
ApplyDebPatches ==
    /\ AtMethod("apply_deb_patches")
    /\ \E sf \in SeriesFiles \cup {NoFileRec} :
        LET m == "apply_deb_patches"
            t0 == TreeOf(TRUE, FALSE, NoFileRec)
            names == PatchFiles(ReadLines(sf.bytes, <<>>))
        IN  IF ~sf.exists THEN
                /\ ReturnsEarly(m)
                /\ PatchStateReturned(NoFormat, sf, t0, t0)
            ELSE \E failAt \in 0..Len(names) :
                LET r == DirectLoop(names, 1, t0, failAt)
                IN  IF r.raised THEN
                        /\ RaisesInside(m, r.why, SrcDir)
                        /\ PatchState(NoFormat, sf, t0, r.tree)
                    ELSE
                        /\ ReturnsRestored(m)
                        /\ PatchStateReturned(NoFormat, sf, t0, r.tree)
    /\ UNCHANGED <<op, cwd0, dlvars, bpvars, revvars, outvars>>

(***************************************************************************)
(* Parser.set_revision()                                                   *)
(***************************************************************************)

\* The rules of a revision block that count commits.
Rules == {"PKG", "SRC", "GIT"}

\* What stx_patch can be: not declared, an int, or a value of another type.
StxPatches == {<<"absent">>, <<"str">>} \cup {<<"int", n>> : n \in -1..1}

\* meta_data["revision"]: whether the block is declared, its dist, whether
\* PKG_GITREVCOUNT and SRC_GITREVCOUNT are declared, which fields
\* GITREVCOUNT has, and stx_patch.
RevisionDatas ==
    [declared : {TRUE}, dist : {"", "bullseye"}, PKG : BOOLEAN, SRC : BOOLEAN,
     GIT : {"absent", "no SRC_DIR", "no BASE_SRCREV", "both"}, stx_patch : StxPatches]

NoRevisionData ==
    [declared |-> FALSE, dist |-> "", PKG |-> FALSE, SRC |-> FALSE,
     GIT |-> "absent", stx_patch |-> <<"absent">>]

\* The rules of rd whose fields are complete, src_path telling whether the
\* metadata has a src_path.
Complete(rd, src_path) ==
    {r \in Rules : \/ r = "PKG" /\ rd.PKG
                   \/ r = "SRC" /\ rd.SRC /\ src_path
                   \/ r = "GIT" /\ rd.GIT = "both"}

\* What the git queries print: for each rule the number of commits under
\* the counted path (git rev-list --count) and the number of uncommitted
\* changes under it (git status --porcelain | wc -l).
NoGit == [r \in Rules |-> [commits |-> 0, dirty |-> 0]]

Gits(rd, src_path) ==
    {g \in [Rules -> [commits : 0..MaxCount, dirty : 0..MaxCount]] :
        \A r \in Rules \ Complete(rd, src_path) : g[r] = NoGit[r]}

\* What set_revision has done so far: the rules whose git queries it ran,
\* the revision counted, and how it ended.
NoRevision ==
    [raised |-> FALSE, why |-> "none", queries |-> <<>>, empty |-> TRUE,
     dist |-> "", revision |-> 0]

\* One rule counting its commits only.
RuleCountCommitsOnly(commits, dirty) == commits

\* Lines 293-297, 305-309, 319-320: revision += the commits counted;
\* revision += the uncommitted changes counted.
RuleCount(commits, dirty) == commits + dirty

\* The two git queries of rule r (git_fail: the rule whose query exits
\* non-zero).
Query(st, r, g, git_fail) ==
    IF st.raised THEN st
    ELSE IF git_fail = r
         THEN [st EXCEPT !.raised = TRUE, !.why = "git", !.queries = Append(@, r)]
         ELSE [st EXCEPT !.queries = Append(@, r),
                         !.revision = @ + RuleCount(g[r].commits, g[r].dirty)]

\* Lines 291-297.
CountPKG(st, rd, g, git_fail) ==
    IF st.raised \/ ~rd.PKG THEN st ELSE Query(st, "PKG", g, git_fail)

\* Lines 299-309.
CountSRC(st, rd, src_path, g, git_fail) ==
    IF st.raised \/ ~rd.SRC THEN st
    ELSE IF ~src_path THEN [st EXCEPT !.raised = TRUE, !.why = "config"]
    ELSE Query(st, "SRC", g, git_fail)

\* Lines 311-321.
CountGIT(st, rd, g, git_fail) ==
    IF st.raised \/ rd.GIT = "absent" THEN st
    ELSE IF rd.GIT # "both" THEN [st EXCEPT !.raised = TRUE, !.why = "config"]
    ELSE Query(st, "GIT", g, git_fail)

\* Lines 323-328.
AddStxPatch(st, rd) ==
    IF st.raised \/ rd.stx_patch = <<"absent">> THEN st
    ELSE IF rd.stx_patch[1] # "int" THEN [st EXCEPT !.raised = TRUE, !.why = "config"]
    ELSE [st EXCEPT !.revision = @ + rd.stx_patch[2]]

\* Parser.set_revision (lines 276-332): "" when no revision block is
\* declared (empty), dist + "." + str(revision) otherwise.
SetRevision(rd, src_path, g, git_fail) ==
    IF ~rd.declared THEN NoRevision
    ELSE AddStxPatch(
            CountGIT(
                CountSRC(
                    CountPKG([NoRevision EXCEPT !.empty = FALSE, !.dist = rd.dist],
                             rd, g, git_fail),
                    rd, src_path, g, git_fail),
                rd, g, git_fail),
            rd)

\* set_revision is called on a Parser whose metadata have been read.  The
\* inputs: the revision block, whether the metadata have a src_path, what
\* the git queries print and which of them fails.
SetRevisionCall ==
    /\ pc = "idle"
    /\ op' = "set_revision"
    /\ pc' = "done"
    /\ cwd0' = cwd
    /\ \E rd \in RevisionDatas \cup {NoRevisionData}, src_path \in BOOLEAN :
        \E g \in Gits(rd, src_path), git_fail \in {"none"} \cup Complete(rd, src_path) :
            LET r == SetRevision(rd, src_path, g, git_fail)
            IN  /\ revision_data' = rd
                /\ meta_data' = [meta_data EXCEPT !.src_path = src_path]
                /\ git' = g
                /\ revision' = r
                /\ outcome' = IF r.raised THEN "raised" ELSE "returned"
                /\ failure' = IF r.raised THEN [why |-> r.why, file |-> NoFile]
                              ELSE failure
    /\ UNCHANGED <<cwd, pwd, files, files0, idx, attempts, fetched, verified,
                   pkgvars, patchvars, bpvars, outvars>>

(***************************************************************************)
(* Parser.package(pkgpath, mirror)                                         *)
(***************************************************************************)

\* Lines 771-785 with `if` for the second `elif`: the else branch then
\* belongs to the test of src_path alone.
OriginBranchesSplit(md) ==
    (IF md.dl_hook THEN <<"run_dl_hook">>
     ELSE IF md.dl_path # "none" THEN <<"extract_tarball">> ELSE <<>>)
    \o (IF md.src_path THEN <<"create_src_package">> ELSE <<"dsc_extract">>)

\* Lines 771-785: the branches of the if/elif chain that run, in order.
OriginBranches(md) ==
    IF md.dl_hook THEN <<"run_dl_hook">>
    ELSE IF md.dl_path # "none" THEN <<"extract_tarball">>
    ELSE IF md.src_path THEN <<"create_src_package">>
    ELSE <<"dsc_extract">>

\* The methods a branch runs, in order: run_dl_hook (lines 618-641),
\* extract_tarball (549-570), create_src_package (603-616) and the else
\* branch (778-785).
BranchMethods(b) ==
    CASE b = "run_dl_hook" ->
            <<"run_dl_hook", "update_deb_folder", "apply_deb_patches">>
      [] b = "extract_tarball" ->
            <<"extract_tarball", "copy_custom_files", "create_orig_tarball",
              "update_deb_folder", "apply_deb_patches">>
      [] b = "create_src_package" ->
            <<"create_src_package", "copy_custom_files", "create_orig_tarball",
              "update_deb_folder">>
      [] OTHER -> <<"dsc_extract", "apply_deb_patches">>

RECURSIVE MethodsOf(_)
MethodsOf(bs) ==
    IF bs = <<>> THEN <<>> ELSE BranchMethods(Head(bs)) \o MethodsOf(Tail(bs))

\* Lines 771-816: origin resolution, apply_src_patches, and the rest.
PackageTodo(md) == MethodsOf(OriginBranches(md)) \o <<"apply_src_patches", "finish">>

\* The metadata package can be called with: the origin keys, and whether
\* dl_files are declared where the branch taken reads them (in
\* copy_custom_files).
PackageMetaDatas ==
    {md \in [dl_files : {<<>>, <<"sha256sum">>}, dl_path : {"none", "sha256sum"},
             archive : {FALSE}, src_path : BOOLEAN, dl_hook : BOOLEAN] :
        md.dl_files # <<>> =>
            OriginBranches(md) \in {<<"extract_tarball">>, <<"create_src_package">>}}

\* Lines 745-769: setup, the fresh packdir, set_build_type, the log file
\* handler, the mirror check and the copy of the mirrored sources.
PackageEnter ==
    /\ pc = "idle"
    /\ handlers < MaxHandlers
    /\ op' = "package"
    /\ cwd0' = cwd
    /\ ran' = <<>>
    /\ \E md \in PackageMetaDatas,
          step \in {"setup", "set_build_type", "mirror", "cp", "ok"} :
        /\ meta_data' = md
        /\ IF step = "ok" THEN
                /\ todo' = PackageTodo(md)
                /\ pc' = "todo"
                /\ outcome' = "running"
                /\ failure' = failure
           ELSE
                /\ todo' = <<>>
                /\ pc' = "done"
                /\ outcome' = "raised"
                /\ failure' = [why |-> step, file |-> NoFile]
        /\ handlers' = IF step \in {"setup", "set_build_type"}
                        THEN handlers
                        ELSE handlers + 1
    /\ UNCHANGED <<cwd, pwd, files, files0, idx, attempts, fetched, verified, patchvars, bpvars, revvars,
                   changelog, built, output, tarvars>>

\* Parser.run_dl_hook up to its calls of update_deb_folder and
\* apply_deb_patches (lines 618-639).  The inputs: the step that fails.
RunDlHook ==
    /\ AtMethod("run_dl_hook")
    /\ \E step \in {"exists", "cp", "access", "hook", "create_orig_tarball", "ok"} :
        LET m == "run_dl_hook"
        IN  IF step \in {"exists", "cp"} THEN RaisesBeforeChdir(m, step)
            ELSE IF step = "ok" THEN ReturnsRestored(m)
            ELSE RaisesInside(m, step, PackDir)
    /\ UNCHANGED <<op, cwd0, dlvars, patchvars, bpvars, revvars, outvars>>

\* The member names `tar -tf` lists, split at "/": a file <<"foo">>, a
\* directory "foo/" <<"foo", "">>, an entry beneath it <<"foo", "a">>.
TopNames == {"bar", "foo"}
Members == {<<t>> : t \in TopNames} \cup {<<t, n>> : t \in TopNames, n \in {"", "a"}}
Tarballs == {tb \in SUBSET Members : Cardinality(tb) <= MaxMembers}
NoTarball == {}

\* The order `sort` puts the lines in.
SortOrder == <<"", "a", "bar", "foo">>

\* awk -F "/" '{print $k}': field k of a line, empty when the line has
\* fewer fields.
Field(p, k) == IF k <= Len(p) THEN p[k] ELSE ""

\* `tar -tf tarball | awk -F "/" '{print $k}' | sort | uniq`: the text the
\* pipeline prints, every distinct field followed by a newline.
RECURSIVE TextOf(_)
TextOf(ls) ==
    IF ls = <<>> THEN <<>>
    ELSE (IF Head(ls) = "" THEN <<>> ELSE <<Head(ls)>>) \o <<"\n">> \o TextOf(Tail(ls))
Listing(tb, k) ==
    TextOf(SelectSeq(SortOrder, LAMBDA x : x \in {Field(p, k) : p \in tb}))

\* run_shell_cmd(cmd, logger): the output of the command, stripped.
RunShellCmd(out) == Strip(out)

\* len(text.split('\n')) and text.split('\n')[0].
SplitLen(t) == 1 + Cardinality({k \in 1..Len(t) : t[k] = "\n"})
SplitFirst(t) == IF t = <<>> \/ Head(t) = "\n" THEN "" ELSE Head(t)

NoTopdir == <<"None">>

\* get_topdir without the test of subdir.
GetTopdirOfAnyMember(tb) ==
    LET topdir == RunShellCmd(Listing(tb, 1))
    IN  IF SplitLen(topdir) = 1 THEN <<"dir", SplitFirst(topdir)>> ELSE NoTopdir

\* get_topdir (lines 111-128) on an existing tarball.
GetTopdir(tb) ==
    LET topdir == RunShellCmd(Listing(tb, 1))
        subdir == RunShellCmd(Listing(tb, 2))
    IN  IF SplitLen(topdir) = 1 /\ subdir # <<>>
        THEN <<"dir", SplitFirst(topdir)>>
        ELSE NoTopdir

\* What tar extracts into the new source directory: with
\* --strip-components 1 every member loses its first component, and the
\* members left without a name are skipped.
Extracted(tb, strip) ==
    IF strip
    THEN {Tail(p) : p \in {q \in tb : Len(q) > 1 /\ Tail(q) # <<"">>}}
    ELSE tb

\* Parser.extract_tarball up to its call of copy_custom_files (lines
\* 549-564).  The inputs: the tarball and the step that fails.  Inside
\* package the methods that follow do not read what was extracted.
ExtractTarball ==
    /\ AtMethod("extract_tarball")
    /\ \E step \in {"tar_cmd", "get_topdir", "mkdir", "tar", "ok"} :
        LET m == "extract_tarball"
        IN  IF step \in {"tar_cmd", "get_topdir"} THEN
                /\ RaisesBeforeChdir(m, step)
                /\ UNCHANGED tarvars
            ELSE \E tb \in Tarballs :
                LET strip == GetTopdir(tb) # NoTopdir
                    flag == IF strip THEN "strip" ELSE "flat"
                IN  IF step = "mkdir" THEN
                        /\ RaisesBeforeChdir(m, step)
                        /\ tarball' = tb
                        /\ strip_components' = flag
                        /\ srcdir' = {}
                    ELSE IF step = "tar" THEN
                        /\ RaisesBeforeChdir(m, step)
                        /\ tarball' = tb
                        /\ strip_components' = flag
                        /\ \E part \in SUBSET Extracted(tb, strip) : srcdir' = part
                    ELSE
                        /\ ReturnsEarly(m)
                        /\ IF Tail(todo) = <<>> THEN
                                /\ tarball' = tb
                                /\ strip_components' = flag
                                /\ srcdir' = Extracted(tb, strip)
                           ELSE
                                /\ tarball' = NoTarball
                                /\ strip_components' = "none"
                                /\ srcdir' = {}
    /\ UNCHANGED <<op, cwd0, dlvars, patchvars, bpvars, revvars, changelog, built, output, handlers>>

\* extract_tarball is called on its own.
ExtractEnter ==
    /\ pc = "idle"
    /\ op' = "extract_tarball"
    /\ pc' = "todo"
    /\ outcome' = "running"
    /\ cwd0' = cwd
    /\ todo' = <<"extract_tarball">>
    /\ UNCHANGED <<cwd, pwd, failure, ran, dlvars, patchvars, bpvars, revvars, outvars>>

\* Parser.create_src_package up to its call of copy_custom_files (lines
\* 603-610).
CreateSrcPackage ==
    /\ AtMethod("create_src_package")
    /\ \E step \in {"cp", "ok"} :
        LET m == "create_src_package"
        IN  IF step = "ok" THEN ReturnsEarly(m) ELSE RaisesBeforeChdir(m, step)
    /\ UNCHANGED <<op, cwd0, dlvars, patchvars, bpvars, revvars, outvars>>

\* The else branch of package up to its call of apply_deb_patches (lines
\* 778-784).
DscExtract ==
    /\ AtMethod("dsc_extract")
    /\ \E step \in {"exists", "dpkg-source", "ok"} :
        LET m == "dsc_extract"
        IN  IF step = "ok" THEN ReturnsEarly(m) ELSE RaisesBeforeChdir(m, step)
    /\ UNCHANGED <<op, cwd0, dlvars, patchvars, bpvars, revvars, outvars>>

\* Parser.copy_custom_files (lines 438-480).  With dl_files declared the
\* method works inside packdir between lines 447 and 469.
CopyCustomFiles ==
    /\ AtMethod("copy_custom_files")
    /\ \E step \in {"cp_src_files", "exists", "tar", "cp_files", "ok"} :
        LET m == "copy_custom_files"
            has_dl_files == meta_data.dl_files # <<>>
        IN  IF step = "ok" THEN
                IF has_dl_files THEN ReturnsRestored(m) ELSE ReturnsEarly(m)
            ELSE IF step \in {"exists", "tar"} THEN
                /\ has_dl_files
                /\ RaisesInside(m, step, PackDir)
            ELSE RaisesBeforeChdir(m, step)
    /\ UNCHANGED <<op, cwd0, dlvars, patchvars, bpvars, revvars, outvars>>

\* Parser.create_orig_tarball (lines 584-601).
CreateOrigTarball ==
    /\ AtMethod("create_orig_tarball")
    /\ \E step \in {"exists", "tar", "ok"} :
        LET m == "create_orig_tarball"
        IN  IF step = "ok" THEN ReturnsEarly(m) ELSE RaisesBeforeChdir(m, step)
    /\ UNCHANGED <<op, cwd0, dlvars, patchvars, bpvars, revvars, outvars>>

\* The version dpkg-parsechangelog can print for the tree: the one of the
\* top entry of srcdir/debian/changelog.
DebVer == "2:1.4-3"
TreeVersions == {DebVer, "1.4-2"}

\* The revision blocks package is run with.
PackageRevisionDatas ==
    { NoRevisionData,
      [NoRevisionData EXCEPT !.declared = TRUE, !.dist = "bullseye"],
      [NoRevisionData EXCEPT !.declared = TRUE, !.SRC = TRUE],
      [NoRevisionData EXCEPT !.declared = TRUE, !.PKG = TRUE,
                             !.stx_patch = <<"int", 1>>] }

NoEntry == [ver |-> "none", suffix |-> NoRevision]

\* The files of the source package, in the order package copies them.
SourceFiles == <<"dsc", "orig">>

\* Lines 788-816 of package: the changelog entry (dpkg-parsechangelog,
\* set_revision, dch), the source package build and the copy of its files
\* to the output directory.  The inputs: the version of the tree's
\* changelog, the inputs of set_revision, and the step that fails.
PackageFinish ==
    /\ AtMethod("finish")
    /\ \E step \in {"dpkg-parsechangelog", "set_revision", "dch",
                    "dpkg-buildpackage", "dsc", "cp", "ok"} :
        LET m == "finish"
        IN  /\ handlers' = IF step = "ok" THEN handlers - 1 ELSE handlers
            /\ IF step = "dpkg-parsechangelog" THEN
                   /\ RaisesBeforeChdir(m, step)
                   /\ UNCHANGED <<revvars, changelog, built, output>>
               ELSE \E ver \in TreeVersions, rd \in PackageRevisionDatas :
                    \E g \in Gits(rd, meta_data.src_path),
                       git_fail \in {"none"} \cup Complete(rd, meta_data.src_path) :
                   LET r == SetRevision(rd, meta_data.src_path, g, git_fail)
                       entry == [ver |-> ver, suffix |-> r]
                   IN  /\ revision_data' = rd
                       /\ git' = g
                       /\ revision' = r
                       /\ IF step = "set_revision" THEN
                               /\ r.raised
                               /\ RaisesBeforeChdir(m, r.why)
                               /\ UNCHANGED <<changelog, built, output>>
                          ELSE
                               /\ ~r.raised
                               /\ IF step = "dch" THEN
                                       /\ RaisesBeforeChdir(m, step)
                                       /\ UNCHANGED <<changelog, built, output>>
                                  ELSE IF step = "dpkg-buildpackage" THEN
                                       /\ RaisesBeforeChdir(m, step)
                                       /\ changelog' = entry
                                       /\ UNCHANGED <<built, output>>
                                  ELSE IF step = "dsc" THEN
                                       /\ RaisesBeforeChdir(m, step)
                                       /\ changelog' = entry
                                       /\ built' = TRUE
                                       /\ UNCHANGED output
                                  ELSE IF step = "cp" THEN
                                       /\ RaisesBeforeChdir(m, step)
                                       /\ changelog' = entry
                                       /\ built' = TRUE
                                       /\ \E k \in 0..(Len(SourceFiles) - 1) :
                                           output' = {SourceFiles[i] : i \in 1..k}
                                  ELSE
                                       /\ ReturnsEarly(m)
                                       /\ changelog' = entry
                                       /\ built' = TRUE
                                       /\ output' = {SourceFiles[i] : i \in 1..Len(SourceFiles)}
    /\ UNCHANGED <<op, cwd0, dlvars, patchvars, bpvars, tarvars>>

Package ==
    \/ PackageEnter
    \/ RunDlHook
    \/ ExtractTarball
    \/ CreateSrcPackage
    \/ DscExtract
    \/ CopyCustomFiles
    \/ CreateOrigTarball
    \/ PackageFinish

(***************************************************************************)
(* PatchBuilder.build_patch()                                              *)
(***************************************************************************)

\* The debs the fetch can leave in the download area.
Debs == {"software_1.0.deb", "other_1.0.deb"}

\* self.metadata: whether a pre-install and a post-install script are
\* declared and whether 'software' is among stx_packages.
Metadatas == [pre_install : BOOLEAN, post_install : BOOLEAN, software : BOOLEAN]
NoMetadata == [pre_install |-> FALSE, post_install |-> FALSE, software |-> FALSE]

\* No .patch file has been written.
NotWritten == {"none"}

\* The steps of build_patch, in order: the fetch (lines 74-80), software.tar
\* (83-92), the install scripts (94-104), the scripts of the software deb
\* (108-122), metadata.tar (124-133) and __sign_and_pack (136).
BuildPatchSteps ==
    <<"fetch_debs", "software_tar", "install_scripts", "software_scripts",
      "metadata_tar", "__sign_and_pack">>

\* A step of build_patch raised where the process is.
StepRaises(m, why) ==
    /\ MethodRaises(m, why)
    /\ UNCHANGED <<cwd, pwd>>

\* build_patch is called on a PatchBuilder whose recipe has been parsed.
BuildPatchEnter ==
    /\ pc = "idle"
    /\ op' = "build_patch"
    /\ pc' = "todo"
    /\ outcome' = "running"
    /\ cwd0' = cwd
    /\ todo' = BuildPatchSteps
    /\ \E md \in Metadatas : metadata' = md
    /\ UNCHANGED <<cwd, pwd, failure, ran, dlvars, patchvars, revvars, outvars, sigvars,
                   dl_dir, tmpdir, tmp_folder, patch_full_path, result>>

\* Lines 74-80: the fetch, and `return False` when it left no deb.
FetchDebs ==
    /\ AtMethod("fetch_debs")
    /\ \E fetch_ok \in BOOLEAN, debs \in SUBSET Debs :
        LET m == "fetch_debs"
        IN  IF ~fetch_ok THEN
                /\ StepRaises(m, "fetch")
                /\ UNCHANGED <<dl_dir, result>>
            ELSE IF debs = {} THEN
                /\ ran' = Append(ran, m)
                /\ todo' = todo
                /\ pc' = "done"
                /\ outcome' = "returned"
                /\ result' = "False"
                /\ dl_dir' = debs
                /\ UNCHANGED <<cwd, pwd, failure>>
            ELSE
                /\ MethodReturns(m)
                /\ dl_dir' = debs
                /\ UNCHANGED <<cwd, pwd, failure, result>>
    /\ UNCHANGED <<op, cwd0, dlvars, patchvars, revvars, outvars, sigvars, metadata, tmpdir, tmp_folder, patch_full_path>>

\* Lines 83-92: the temporary working directory, os.chdir into it, and
\* software.tar.
SoftwareTar ==
    /\ AtMethod("software_tar")
    /\ \E step \in {"mkdtemp", "tar", "ok"} :
        LET m == "software_tar"
        IN  IF step = "mkdtemp" THEN
                /\ StepRaises(m, step)
                /\ tmpdir' = tmpdir
            ELSE IF step = "tar" THEN
                /\ MethodRaises(m, step)
                /\ cwd' = TmpDir
                /\ tmpdir' = tmpdir
                /\ pwd' = pwd
            ELSE
                /\ MethodReturns(m)
                /\ cwd' = TmpDir
                /\ tmpdir' = {"software.tar"}
                /\ UNCHANGED <<pwd, failure>>
    /\ UNCHANGED <<op, cwd0, dlvars, patchvars, revvars, outvars, sigvars, metadata, dl_dir, tmp_folder,
                   patch_full_path, result>>

\* Lines 94-104 with copy_rename_script (lines 138-164).  The inputs:
\* whether the declared scripts are files.
InstallScripts ==
    /\ AtMethod("install_scripts")
    /\ \E pre_isfile \in BOOLEAN, post_isfile \in BOOLEAN :
        LET m == "install_scripts"
            pre == IF metadata.pre_install THEN {"pre-install.sh"} ELSE {}
            post == IF metadata.post_install THEN {"post-install.sh"} ELSE {}
        IN  IF metadata.pre_install /\ ~pre_isfile THEN
                /\ StepRaises(m, "pre_install")
                /\ tmpdir' = tmpdir
            ELSE IF metadata.post_install /\ ~post_isfile THEN
                /\ StepRaises(m, "post_install")
                /\ tmpdir' = tmpdir \cup pre
            ELSE
                /\ MethodReturns(m)
                /\ tmpdir' = tmpdir \cup pre \cup post
                /\ UNCHANGED <<cwd, pwd, failure>>
    /\ UNCHANGED <<op, cwd0, dlvars, patchvars, revvars, outvars, sigvars, metadata, dl_dir, tmp_folder,
                   patch_full_path, result>>

\* The names of the members of the data tar of the software deb, each in
\* two parts: a name ends with a file to get exactly when its second part
\* is that file.
FilesToGet == <<"deploy-precheck", "upgrade_utils.py">>
DebMemberNames ==
    {<<d, f>> : d \in {"usr/sbin/", "usr/sbin/my-"}, f \in {"deploy-precheck", "upgrade_utils.py"}}

\* data_tar.getnames(): the members in the order of the archive.
DebListings ==
    {l \in UNION {[1..n -> DebMemberNames] : n \in 0..MaxDebMembers} :
        \A a, b \in DOMAIN l : a # b => l[a] # l[b]}

\* member.endswith(f)
EndsWith(member, f) == member[2] = f

\* os.path.basename of a member: the name shutil.copy(path, "./") gives
\* the copy.
BaseName(member) ==
    IF member[1] = "usr/sbin/" THEN member[2]
    ELSE IF member[2] = "deploy-precheck" THEN "my-deploy-precheck"
    ELSE "my-upgrade_utils.py"

NoMember == <<>>

\* Lines 201-205: file_tarpath is the last member that ends with f.
RECURSIVE FileTarpath(_, _, _)
FileTarpath(names, f, file_tarpath) ==
    IF names = <<>> THEN file_tarpath
    ELSE FileTarpath(Tail(names), f,
                     IF EndsWith(Head(names), f) THEN Head(names) ELSE file_tarpath)

\* Lines 108-122 with get_files_from_deb (lines 167-220).  The inputs:
\* whether ar unpacks the deb, and the members of its data tar.
SoftwareScripts ==
    /\ AtMethod("software_scripts")
    /\ \E ar_ok \in BOOLEAN, names \in DebListings :
        LET m == "software_scripts"
            paths == [k \in 1..Len(FilesToGet) |-> FileTarpath(names, FilesToGet[k], NoMember)]
        IN  IF ~metadata.software THEN
                /\ MethodReturns(m)
                /\ UNCHANGED <<cwd, pwd, failure, tmpdir, tmp_folder>>
            ELSE IF "software_1.0.deb" \notin dl_dir THEN
                /\ StepRaises(m, "no deb")
                /\ tmp_folder' = "exists"
                /\ tmpdir' = tmpdir
            ELSE IF ~ar_ok THEN
                /\ StepRaises(m, "ar")
                /\ tmp_folder' = "exists"
                /\ tmpdir' = tmpdir
            ELSE IF \E k \in 1..Len(paths) : paths[k] = NoMember THEN
                /\ StepRaises(m, "not found")
                /\ tmp_folder' = "exists"
                /\ tmpdir' = tmpdir
            ELSE
                /\ MethodReturns(m)
                /\ tmp_folder' = "removed"
                /\ tmpdir' = tmpdir \cup {BaseName(paths[k]) : k \in 1..Len(paths)}
                /\ UNCHANGED <<cwd, pwd, failure>>
    /\ UNCHANGED <<op, cwd0, dlvars, patchvars, revvars, outvars, sigvars, metadata, dl_dir, patch_full_path, result>>

\* The working directory after lines 124-133 when metadata.xml is left in
\* it.
WithMetadataTarAndXml(dir) == dir \cup {"metadata.xml", "metadata.tar"}

\* The working directory after lines 124-133: metadata.xml is generated,
\* put into metadata.tar and removed.
WithMetadataTar(dir) == (dir \cup {"metadata.xml", "metadata.tar"}) \ {"metadata.xml"}

\* Lines 124-133: metadata.xml, metadata.tar, and metadata.xml removed.
MetadataTar ==
    /\ AtMethod("metadata_tar")
    /\ \E step \in {"generate", "ok"} :
        LET m == "metadata_tar"
        IN  IF step = "ok" THEN
                /\ MethodReturns(m)
                /\ tmpdir' = WithMetadataTar(tmpdir)
                /\ UNCHANGED <<cwd, pwd, failure>>
            ELSE
                /\ StepRaises(m, step)
                /\ tmpdir' = tmpdir
    /\ UNCHANGED <<op, cwd0, dlvars, patchvars, revvars, outvars, sigvars, metadata, dl_dir, tmp_folder,
                   patch_full_path, result>>

\* The width of a digest in bits, and the digests: get_md5 returns the md5
\* of a file as an integer.
DigestBits == 2
Digests == 0..(2^DigestBits - 1)

\* sig = 0xFFFFFFFFFFFFFFFFFFFFFFFFFFFFFFFF: every bit of a digest set.
AllOnes == 2^DigestBits - 1

\* The contents the files of tmpdir can have: as many as there are digests
\* for the files __sign_and_pack reads (lines 227-233), one for the others.
SignedNames == {"metadata.tar", "software.tar", "pre-install.sh", "post-install.sh"}
ContentsOf(names) ==
    {[n \in names |-> IF n \in SignedNames THEN c[n] ELSE 0] :
        c \in [names \cap SignedNames -> Digests]}

NoContents == [n \in {} |-> 0]

\* PatchBuilder.get_md5 (lines 56-66): the md5 of the content, which is
\* different for different contents.
GetMd5(c) == (3 * c + 1) % (2^DigestBits)

\* a ^ b on integers.
RECURSIVE BitXor(_, _)
BitXor(a, b) ==
    IF a = 0 THEN b
    ELSE IF b = 0 THEN a
    ELSE (((a % 2) + (b % 2)) % 2) + 2 * BitXor(a \div 2, b \div 2)

\* Lines 227-233: metadata.tar, software.tar, and the install scripts the
\* metadata declare.
FileList(md) ==
    <<"metadata.tar", "software.tar">>
    \o (IF md.pre_install THEN <<"pre-install.sh">> ELSE <<>>)
    \o (IF md.post_install THEN <<"post-install.sh">> ELSE <<>>)

\* The signature loop starting from an empty accumulator.
RECURSIVE MdSumFromZero(_, _, _)
MdSumFromZero(filelist, c, sig) ==
    IF filelist = <<>> THEN BitXor(sig, AllOnes)
    ELSE MdSumFromZero(Tail(filelist), c, BitXor(sig, GetMd5(c[Head(filelist)])))

\* Lines 237-239: for f in filelist: sig ^= self.get_md5(f), sig being
\* AllOnes before the loop.
RECURSIVE MdSum(_, _, _)
MdSum(filelist, c, sig) ==
    IF filelist = <<>> THEN sig
    ELSE MdSum(Tail(filelist), c, BitXor(sig, GetMd5(c[Head(filelist)])))

\* PatchBuilder.__sign_and_pack (lines 222-269), after which build_patch
\* falls off its end and returns None.  The inputs: the contents of the
\* files of tmpdir and the step that fails.
SignAndPack ==
    /\ AtMethod("__sign_and_pack")
    /\ \E step \in {"sign_files", "tarfile", "ok"}, c \in ContentsOf(tmpdir) :
        LET m == "__sign_and_pack"
        IN  /\ contents' = c
            /\ signature' = {MdSum(FileList(metadata), c, AllOnes)}
            /\ IF step = "sign_files" THEN
                    /\ StepRaises(m, step)
                    /\ tmpdir' = tmpdir \cup {"signature"}
                    /\ UNCHANGED <<patch_full_path, result>>
               ELSE IF step = "tarfile" THEN
                    /\ StepRaises(m, step)
                    /\ tmpdir' = tmpdir \cup {"signature", "signature.v2"}
                    /\ UNCHANGED <<patch_full_path, result>>
               ELSE
                    /\ MethodReturns(m)
                    /\ tmpdir' = tmpdir \cup {"signature", "signature.v2"}
                    /\ patch_full_path' = tmpdir \cup {"signature", "signature.v2"}
                    /\ result' = "None"
                    /\ UNCHANGED <<cwd, pwd, failure>>
    /\ UNCHANGED <<op, cwd0, dlvars, patchvars, revvars, outvars, metadata, dl_dir, tmp_folder>>

\* __sign_and_pack is called on its own, in a directory that holds the
\* files of its filelist.
SignEnter ==
    /\ pc = "idle"
    /\ op' = "__sign_and_pack"
    /\ pc' = "todo"
    /\ outcome' = "running"
    /\ cwd0' = cwd
    /\ todo' = <<"__sign_and_pack">>
    /\ \E md \in [pre_install : BOOLEAN, post_install : BOOLEAN, software : {FALSE}] :
        /\ metadata' = md
        /\ tmpdir' = {FileList(md)[k] : k \in 1..Len(FileList(md))}
    /\ UNCHANGED <<cwd, pwd, failure, ran, dlvars, patchvars, revvars, outvars, sigvars,
                   dl_dir, tmp_folder, patch_full_path, result>>

BuildPatch ==
    \/ BuildPatchEnter
    \/ FetchDebs
    \/ SoftwareTar
    \/ InstallScripts
    \/ SoftwareScripts
    \/ MetadataTar
    \/ SignAndPack

\* The patch methods are public: a caller runs one of them on its own.
\* Parser.dummy_package (lines 818-855).  It works inside packdir between
\* lines 835 and 848.  The inputs: the step that fails.
DummyPackage ==
    /\ AtMethod("dummy_package")
    /\ \E step \in {"exists", "mkdir", "cp", "tar", "debmake", "dch",
                    "dpkg-buildpackage", "dsc", "ok"} :
        LET m == "dummy_package"
        IN  IF step \in {"exists", "mkdir"} THEN RaisesBeforeChdir(m, step)
            ELSE IF step = "ok" THEN ReturnsRestored(m)
            ELSE RaisesInside(m, step, PackDir)
    /\ UNCHANGED <<op, cwd0, dlvars, patchvars, bpvars, revvars, outvars>>

\* A call of Parser.dummy_package.
DummyPackageCall ==
    /\ pc = "idle"
    /\ op' = "dummy_package"
    /\ todo' = <<"dummy_package">>
    /\ pc' = "todo"
    /\ outcome' = "running"
    /\ cwd0' = cwd
    /\ UNCHANGED <<cwd, pwd, failure, ran, dlvars, patchvars, bpvars, revvars, outvars>>

PatchMethods == {"update_deb_folder", "apply_src_patches", "apply_deb_patches"}

MethodCall ==
    /\ pc = "idle"
    /\ \E m \in PatchMethods :
        /\ op' = m
        /\ todo' = <<m>>
    /\ pc' = "todo"
    /\ outcome' = "running"
    /\ cwd0' = cwd
    /\ UNCHANGED <<cwd, pwd, failure, ran, dlvars, patchvars, bpvars, revvars, outvars>>

(***************************************************************************)
(* The specification.                                                      *)
(***************************************************************************)
\* The caller has the result of the call (the value returned or the error
\* raised) and goes on: nothing is left of the call but the process-wide
\* state, and the process working directory stays what the call left it.
CallerContinues ==
    /\ pc = "done"
    /\ op' = "none"
    /\ pc' = "idle"
    /\ outcome' = "none"
    /\ pwd' = CallerDir
    /\ cwd0' = cwd
    /\ meta_data' = NoMeta
    /\ files' = NoFiles
    /\ files0' = NoFiles
    /\ idx' = 1
    /\ attempts' = <<>>
    /\ fetched' = {}
    /\ verified' = {}
    /\ failure' = NoFailure
    /\ todo' = <<>>
    /\ ran' = <<>>
    /\ deb_format' = NoFormat
    /\ series' = NoFileRec
    /\ tree' = NoTree
    /\ tree0' = NoTree
    /\ metadata' = NoMetadata
    /\ dl_dir' = {}
    /\ tmpdir' = {}
    /\ tmp_folder' = "none"
    /\ patch_full_path' = NotWritten
    /\ result' = "none"
    /\ contents' = NoContents
    /\ signature' = {}
    /\ revision_data' = NoRevisionData
    /\ git' = NoGit
    /\ revision' = NoRevision
    /\ changelog' = NoEntry
    /\ built' = FALSE
    /\ output' = {}
    /\ tarball' = NoTarball
    /\ strip_components' = "none"
    /\ srcdir' = {}
    /\ UNCHANGED <<cwd, handlers>>

Init ==
    /\ op = "none"
    /\ pc = "idle"
    /\ outcome = "none"
    /\ cwd = CallerDir
    /\ pwd = CallerDir
    /\ cwd0 = CallerDir
    /\ meta_data = NoMeta
    /\ files = NoFiles
    /\ files0 = NoFiles
    /\ idx = 1
    /\ attempts = <<>>
    /\ fetched = {}
    /\ verified = {}
    /\ failure = NoFailure
    /\ todo = <<>>
    /\ ran = <<>>
    /\ deb_format = NoFormat
    /\ series = NoFileRec
    /\ tree = NoTree
    /\ tree0 = NoTree
    /\ metadata = NoMetadata
    /\ dl_dir = {}
    /\ tmpdir = {}
    /\ tmp_folder = "none"
    /\ patch_full_path = NotWritten
    /\ result = "none"
    /\ contents = NoContents
    /\ signature = {}
    /\ revision_data = NoRevisionData
    /\ git = NoGit
    /\ revision = NoRevision
    /\ changelog = NoEntry
    /\ built = FALSE
    /\ output = {}
    /\ tarball = NoTarball
    /\ strip_components = "none"
    /\ srcdir = {}
    /\ handlers = 0

\* Calls of Parser.download alone.
NextDownload ==
    \/ DownloadEnter
    \/ DownloadDlFile
    \/ DownloadDlPath
    \/ DownloadArchive
    \/ DownloadAptSource
    \/ DownloadNothingMore
    \/ CallerContinues

SpecDownload == Init /\ [][NextDownload]_vars

\* Calls of the patch methods alone.
NextPatches ==
    \/ MethodCall
    \/ UpdateDebFolder
    \/ ApplySrcPatches
    \/ ApplyDebPatches
    \/ CallerContinues

SpecPatches == Init /\ [][NextPatches]_vars

\* Calls of Parser.package and of the patch methods.
NextPackage ==
    \/ PackageEnter
    \/ RunDlHook
    \/ ExtractTarball
    \/ CreateSrcPackage
    \/ DscExtract
    \/ CopyCustomFiles
    \/ CreateOrigTarball
    \/ PackageFinish
    \/ UpdateDebFolder
    \/ ApplySrcPatches
    \/ ApplyDebPatches
    \/ CallerContinues

SpecPackage == Init /\ [][NextPackage]_vars

\* Calls of PatchBuilder.build_patch alone.
NextBuildPatch ==
    \/ BuildPatchEnter
    \/ FetchDebs
    \/ SoftwareTar
    \/ InstallScripts
    \/ SoftwareScripts
    \/ MetadataTar
    \/ SignAndPack
    \/ CallerContinues

SpecBuildPatch == Init /\ [][NextBuildPatch]_vars

\* Calls of Parser.set_revision alone.
NextRevision ==
    \/ SetRevisionCall
    \/ CallerContinues

SpecRevision == Init /\ [][NextRevision]_vars

\* Calls of PatchBuilder.__sign_and_pack alone.
NextSign ==
    \/ SignEnter
    \/ SignAndPack
    \/ CallerContinues

SpecSign == Init /\ [][NextSign]_vars

\* Calls of Parser.extract_tarball alone.
NextExtract ==
    \/ ExtractEnter
    \/ ExtractTarball
    \/ CallerContinues

SpecExtract == Init /\ [][NextExtract]_vars

\* Before its first call the caller changes to the directory an earlier
\* run left behind.
CallerChdir ==
    /\ pc = "idle"
    /\ cwd = CallerDir
    /\ ran = <<>>
    /\ cwd' = SrcDir
    /\ pwd' = SrcDir
    /\ cwd0' = SrcDir
    /\ UNCHANGED <<op, pc, outcome, failure, dlvars, pkgvars, patchvars, bpvars, revvars, outvars>>

\* One call of an operation of Parser that changes the working directory.
NextParser ==
    \/ CallerChdir
    \/ Download
    \/ Package
    \/ MethodCall
    \/ UpdateDebFolder
    \/ ApplySrcPatches
    \/ ApplyDebPatches
    \/ DummyPackageCall
    \/ DummyPackage

SpecParser == Init /\ [][NextParser]_vars

Next ==
    \/ Download
    \/ CallerChdir
    \/ DummyPackageCall
    \/ DummyPackage
    \/ SignEnter
    \/ ExtractEnter
    \/ SetRevisionCall
    \/ Package
    \/ BuildPatch
    \/ MethodCall
    \/ UpdateDebFolder
    \/ ApplySrcPatches
    \/ ApplyDebPatches
    \/ CallerContinues

Spec == Init /\ [][Next]_vars

(***************************************************************************)
(* Properties of Parser.download                                           *)
(***************************************************************************)

\* The local file f had the declared digest when download was entered.
PreMatched(f) ==
    /\ files0[f] # Absent
    /\ DigestOf(CheckCmdOf(meta_data, f), files0[f]) = CheckSumOf(meta_data, f)

\* The content c has the digest the metadata declares for f.
Matches(f, c) ==
    /\ c # Absent
    /\ DigestOf(CheckCmdOf(meta_data, f), c) = CheckSumOf(meta_data, f)

AttemptedFile == IF attempts = <<>> THEN NoFile ELSE attempts[1].file

\* C1: a dl_files entry or dl_path archive whose local file exists with the
\* declared digest (sha256 when declared, else md5) is never downloaded,
\* neither from the primary nor from the fallback URL; the file stays as it
\* was and download does not fail on it.
C1_MatchingFileNotDownloaded ==
    \A f \in DeclaredFiles(meta_data) :
        PreMatched(f) =>
            /\ f \notin fetched
            /\ \A i \in 1..Len(attempts) : attempts[i].file # f
            /\ files[f] = files0[f]
            /\ failure.file # f

\* A call that returned after skipping both a dl_files entry checked with
\* md5sum and a dl_path archive, having downloaded another entry.
C1_Witness ==
    /\ op = "download" /\ outcome = "returned"
    /\ Len(meta_data.dl_files) = 2
    /\ meta_data.dl_files[2] = "md5sum"
    /\ PreMatched(DlFile(2))
    /\ DlFile(1) \in fetched
    /\ meta_data.dl_path = "sha256sum"
    /\ PreMatched(Tarball)
    /\ fetched = {DlFile(1)}

\* C2: for a file whose local digest does not match, the primary URL is
\* tried exactly once and first; the fallback is tried, once, exactly when
\* there is one and the primary attempt raised; when the last attempt
\* raised, download raises on that file; when the primary raised and the
\* fallback delivered the declared digest, the file is accepted.
C2_FallbackPolicy ==
    /\ \A i \in 1..Len(meta_data.dl_files) :
            (i < idx /\ ~PreMatched(DlFile(i))) => DlFile(i) \in fetched
    /\ (outcome = "returned" /\ meta_data.dl_path # "none" /\ ~PreMatched(Tarball))
            => Tarball \in fetched
    /\ \A f \in fetched \cap DeclaredFiles(meta_data) :
            (f \notin verified) => AttemptedFile = f
    /\ AttemptedFile \in DeclaredFiles(meta_data) =>
            LET f == AttemptedFile
                n == Len(attempts)
            IN  /\ attempts[1].url = "primary"
                /\ n <= 2
                /\ n = 2 => /\ attempts[2].url = "fallback"
                            /\ attempts[1].alt
                            /\ ~attempts[1].ok
                /\ (attempts[1].alt /\ ~attempts[1].ok) => n = 2
                /\ ~attempts[n].ok =>
                        /\ outcome = "raised"
                        /\ failure = [why |-> "transport", file |-> f]
                /\ (n = 2 /\ attempts[2].ok /\ Matches(f, attempts[2].content)) =>
                        /\ f \in verified
                        /\ failure.file # f
                        /\ files[f] = attempts[2].content

\* A call that returned after the primary URL of the dl_path archive failed
\* and the fallback delivered the declared content.
C2_Witness ==
    /\ op = "download" /\ outcome = "returned"
    /\ AttemptedFile = Tarball
    /\ Len(attempts) = 2
    /\ ~attempts[1].ok
    /\ attempts[2].url = "fallback" /\ attempts[2].ok
    /\ Tarball \in verified
    /\ files0[Tarball] = Other

\* The files of the metadata that come after f in the order of download.
Later(f) ==
    IF f = Tarball THEN {}
    ELSE {DlFile(j) : j \in (f[2] + 1)..Len(meta_data.dl_files)}
            \cup (IF meta_data.dl_path # "none" THEN {Tarball} ELSE {})

\* C3: a download that ended without a transport error but left a file
\* whose digest differs from the declared one is the last attempt of the
\* call: download has raised on that file, the fallback was not tried after
\* it, and no later file was fetched.
C3_MismatchIsTerminal ==
    \A i \in 1..Len(attempts) :
        LET a == attempts[i]
        IN  (a.file \in DeclaredFiles(meta_data) /\ a.ok /\ ~Matches(a.file, a.content)) =>
                /\ i = Len(attempts)
                /\ outcome = "raised" /\ pc = "done"
                /\ failure = [why |-> "mismatch", file |-> a.file]
                /\ fetched \cap Later(a.file) = {}
                /\ \A g \in Later(a.file) : files[g] = files0[g]

\* The primary URL of the first dl_files entry delivered a wrong content
\* while a fallback URL existed, and two later files were still missing.
C3_Witness ==
    /\ op = "download" /\ outcome = "raised"
    /\ failure = [why |-> "mismatch", file |-> DlFile(1)]
    /\ Len(attempts) = 1
    /\ attempts[1].url = "primary" /\ attempts[1].alt /\ attempts[1].ok
    /\ Len(meta_data.dl_files) = 2 /\ files0[DlFile(2)] = Absent
    /\ meta_data.dl_path # "none" /\ files0[Tarball] = Absent

\* The artifact a is in place: a file with its declared digest, or a
\* description file whose members have the digests it lists.
ArtifactMatches(a) ==
    IF a = Dsc THEN ChecksumDsc(files) ELSE Matches(a, files[a])

\* C4: when download returns normally, every artifact it had to fetch was
\* verified after its last download attempt and matches.
C4_ReturnedArtifactsVerified ==
    (op = "download" /\ outcome = "returned") =>
        \A a \in fetched : a \in verified /\ ArtifactMatches(a)

\* C5: an operation that raises leaves the process working directory as it
\* was when the operation was entered.
C5_RaiseRestoresCwd ==
    outcome = "raised" => cwd = cwd0

(***************************************************************************)
(* Properties of the patch methods                                         *)
(***************************************************************************)
LastRan == IF ran = <<>> THEN "none" ELSE ran[Len(ran)]

\* The method m was the last to run, and it returned.
Returned(m) == LastRan = m /\ outcome = "returned"

\* The patch names the series file read lists, in file order.
Listed == PatchFiles(ReadLines(series.bytes, <<>>))

\* The lines name1 \n name2 \n ... of a series file.
RECURSIVE SeriesLines(_)
SeriesLines(names) ==
    IF names = <<>> THEN <<>>
    ELSE Head(names) \o <<"\n">> \o SeriesLines(Tail(names))

Quilt30 == deb_format = <<"3.0", "(quilt)">>
Legacy10 == deb_format = <<"1.0">>
Native30 == deb_format = <<"3.0", "(native)">>

\* C8 as claimed: on a quilt (3.0) tree, apply_src_patches on a series
\* listing p1 then p2 leaves a series file of the tree holding exactly p1
\* then p2 and nothing else, copies both patch files and patches nothing
\* directly.
C8_SeriesExactlyListed ==
    (Returned("apply_src_patches") /\ Quilt30 /\ Listed = << <<"p1">>, <<"p2">> >>) =>
        /\ tree.series = FileOf(<<"p1", "\n", "p2", "\n">>)
        /\ {<<"p1">>, <<"p2">>} \subseteq tree.copied
        /\ tree.applied = <<>>

\* C8 amended: on a quilt (3.0) tree, when apply_src_patches returns from a
\* series that lists at least one patch, the series file of the tree holds
\* what it held before (nothing when it did not exist) followed by one line
\* per listed patch, in series order; the listed patch files are copied
\* into the tree's patches directory, which exists, and no patch is applied
\* to the working files.
C8_SeriesAppended ==
    (Returned("apply_src_patches") /\ Quilt30 /\ Listed # <<>>) =>
        /\ tree.series = FileOf(tree0.series.bytes \o SeriesLines(Listed))
        /\ tree.copied = tree0.copied \cup {Listed[i] : i \in 1..Len(Listed)}
        /\ tree.patches_dir
        /\ tree.applied = <<>>

\* apply_src_patches returned on a quilt tree that came with a series file
\* of its own, the package's series listing p1 then p2.
C8_Witness ==
    /\ Returned("apply_src_patches") /\ Quilt30
    /\ Listed = << <<"p1">>, <<"p2">> >>
    /\ tree0.series = FileOf(<<"u1", "\n">>)
    /\ tree.series = FileOf(<<"u1", "\n", "p1", "\n", "p2", "\n">>)

\* C9: on a legacy (1.0) or native (3.0) tree apply_src_patches applies the
\* listed patches directly, in series order, and neither creates nor
\* changes the series file of the tree.
C9_SeriesUntouched ==
    (Returned("apply_src_patches") /\ (Legacy10 \/ Native30) /\ series.exists) =>
        /\ tree.applied = Listed
        /\ tree.series = tree0.series
        /\ tree.copied = tree0.copied

Recognized == Legacy10 \/ Native30 \/ Quilt30

\* C10: when the format detected is none of 1.0, 3.0 (native) and
\* 3.0 (quilt), update_deb_folder and apply_src_patches raise, and no patch
\* is applied to the tree or registered in it (stated for the series files
\* that list a patch).
C10_UnknownFormatAborts ==
    (LastRan \in {"update_deb_folder", "apply_src_patches"}
            /\ deb_format # NoFormat /\ ~Recognized /\ Listed # <<>>) =>
        /\ outcome = "raised"
        /\ tree.applied = <<>>
        /\ LastRan = "apply_src_patches" =>
                (tree.series = tree0.series /\ tree.copied = tree0.copied)

(***************************************************************************)
(* Properties of Parser.package                                            *)
(***************************************************************************)
OriginMethods == {"run_dl_hook", "extract_tarball", "create_src_package", "dsc_extract"}

\* The origin branches the running package has entered, in order.
OriginsRan == SelectSeq(ran, LAMBDA m : m \in OriginMethods)

\* Origin resolution is over: package has come to apply_src_patches.
OriginResolved ==
    \/ \E i \in 1..Len(ran) : ran[i] \in {"apply_src_patches", "finish"}
    \/ (outcome = "running" /\ todo # <<>> /\ Head(todo) = "apply_src_patches")

\* C7: in package exactly one origin branch executes, chosen by the
\* precedence dl_hook, then dl_path, then src_path, then the pre-staged
\* description file: no other branch is ever entered, none is entered
\* twice, and the chosen one has run when origin resolution is over.
C7_OneOriginBranch ==
    op = "package" =>
        LET chosen ==
                IF meta_data.dl_hook THEN "run_dl_hook"
                ELSE IF meta_data.dl_path # "none" THEN "extract_tarball"
                ELSE IF meta_data.src_path THEN "create_src_package"
                ELSE "dsc_extract"
        IN  /\ OriginsRan \in {<<>>, <<chosen>>}
            /\ OriginResolved => OriginsRan = <<chosen>>

C7_Witness ==
    /\ op = "package"
    /\ meta_data.dl_hook /\ meta_data.dl_path # "none" /\ meta_data.src_path
    /\ OriginResolved
    /\ OriginsRan = <<"run_dl_hook">>
    /\ outcome = "returned"

(***************************************************************************)
(* Properties of PatchBuilder.build_patch                                  *)
(***************************************************************************)
\* C6: after build_patch returns or raises, the process working directory
\* is the one at the time of the call.
C6_BuildPatchKeepsCwd ==
    (op = "build_patch" /\ outcome \in {"returned", "raised"}) => cwd = cwd0

(***************************************************************************)
(* Properties of the series files                                          *)
(***************************************************************************)
\* A line without the blanks around it.
Trimmed(l) ==
    LET ns == {i \in 1..Len(l) : l[i] # " "}
    IN  IF ns = {} THEN <<>>
        ELSE SubSeq(l, CHOOSE i \in ns : \A j \in ns : i <= j,
                       CHOOSE i \in ns : \A j \in ns : j <= i)

\* The patch names of a series file, from position `from` on: each line
\* without its line end and the blanks around it, the empty ones and the
\* ones that begin with # left out, in file order.
RECURSIVE NamesFrom(_, _)
NamesFrom(b, from) ==
    IF from > Len(b) THEN <<>>
    ELSE LET ends == {i \in from..Len(b) : b[i] = "\n"}
             e == IF ends = {} THEN Len(b) + 1
                  ELSE CHOOSE i \in ends : \A j \in ends : i <= j
             name == Trimmed(SubSeq(b, from, e - 1))
         IN  (IF name = <<>> \/ name[1] = "#" THEN <<>> ELSE <<name>>)
             \o NamesFrom(b, e + 1)

\* The method applies the patches it processes directly.
AppliesDirectly ==
    \/ LastRan = "apply_deb_patches"
    \/ LastRan = "update_deb_folder" /\ deb_format # NoFormat /\ ~Quilt30
    \/ LastRan = "apply_src_patches" /\ (Legacy10 \/ Native30)

\* C11: the patch names a method processes are the lines of the series file
\* it read, stripped, without the blank lines and the comment lines, in
\* file order; this is so for update_deb_folder, apply_src_patches and
\* apply_deb_patches alike.  A method that returns has processed the names
\* it applied directly or, on a quilt tree, appended to the tree's series.
C11_SeriesNames ==
    (outcome = "returned" /\ series.exists) =>
        /\ AppliesDirectly => tree.applied = NamesFrom(series.bytes, 1)
        /\ (LastRan = "apply_src_patches" /\ Quilt30) =>
                tree.series.bytes =
                    tree0.series.bytes \o SeriesLines(NamesFrom(series.bytes, 1))

\* update_deb_folder returned from a series file made of a comment line and
\* a name between blanks, having applied that name alone.
C11_Witness ==
    /\ Returned("update_deb_folder")
    /\ series.bytes = <<"#", "p1", "\n", " ", "p2", " ", "\n">>
    /\ tree.applied = << <<"p2">> >>

(***************************************************************************)
(* Properties of a failing patch                                           *)
(***************************************************************************)
\* The running method raised because the patch tool exited non-zero.
PatchFailed == outcome = "raised" /\ failure.why = "patch"

\* C12: when the patch tool fails on the k-th patch of a series, the
\* patches before it have been applied, the tool was run once on the k-th
\* and on none after it, no name was appended to the series file of the
\* tree by the loop, and package raises there: it has not come to its
\* changelog entry, to the build of the source package or to the copy of a
\* file to the output directory.
C12_PatchFailureAborts ==
    (op = "package" /\ failure.why = "patch") =>
        /\ outcome = "raised" /\ pc = "done"
        /\ \E k \in 1..Len(Listed) :
            /\ tree.tried = SubSeq(Listed, 1, k)
            /\ tree.applied = SubSeq(Listed, 1, k - 1)
        /\ LastRan = "apply_src_patches" =>
                tree.series.bytes = tree0.series.bytes
        /\ \A i \in 1..Len(ran) : ran[i] # "finish"
        /\ changelog = NoEntry /\ ~built /\ output = {}

\* package raised in apply_src_patches, the patch tool having failed on the
\* second of two patches.
C12_Witness ==
    /\ op = "package" /\ PatchFailed
    /\ LastRan = "apply_src_patches"
    /\ Len(Listed) = 2
    /\ tree.applied = <<Listed[1]>>
    /\ tree.tried = Listed

(***************************************************************************)
(* Properties of Parser.set_revision                                       *)
(***************************************************************************)
\* set_revision returned a suffix counted from a declared revision block.
RevisionReturned ==
    op = "set_revision" /\ outcome = "returned" /\ revision_data.declared

\* The git output with one more uncommitted change under the path of rule r.
OneMoreChange(g, r) == [g EXCEPT ![r].dirty = @ + 1]

\* C13: for each rule whose path is counted, the same metadata and commit
\* history with one more uncommitted change under that path give a revision
\* integer larger by one, hence strictly larger, than the one returned.
C13_DirtyTreeBumpsRevision ==
    RevisionReturned =>
        \A r \in Complete(revision_data, meta_data.src_path) :
            LET dirtier == SetRevision(revision_data, meta_data.src_path,
                                       OneMoreChange(git, r), "none")
            IN  /\ ~dirtier.raised
                /\ dirtier.revision = revision.revision + 1
                /\ dirtier.revision > revision.revision

\* set_revision returned with the three rules counted, the path of
\* GITREVCOUNT having an uncommitted change.
C13_Witness ==
    /\ RevisionReturned
    /\ Complete(revision_data, meta_data.src_path) = Rules
    /\ git["GIT"].dirty = 1
    /\ revision.revision >= 1

\* A rule is declared without its companion field.
Incomplete ==
    \/ revision_data.SRC /\ ~meta_data.src_path
    \/ revision_data.GIT \in {"no SRC_DIR", "no BASE_SRCREV"}

\* C14: when a rule is declared without its companion field, set_revision
\* raises a configuration error, returns no suffix, and has run no git
\* query before it raises (stated for the calls in which no git query
\* failed).
C14_ConfigErrorBeforeGit ==
    (op = "set_revision" /\ revision_data.declared /\ Incomplete
            /\ revision.why # "git") =>
        /\ outcome = "raised"
        /\ revision.why = "config"
        /\ revision.queries = <<>>

\* C15: when a revision block is declared and set_revision returns, the
\* result is the dist tag, a dot and a non-negative integer.
C15_SuffixNonNegative ==
    RevisionReturned =>
        /\ ~revision.empty
        /\ revision.dist = revision_data.dist
        /\ revision.revision >= 0

\* C16: when no revision block is declared, set_revision returns the empty
\* suffix and the version of the changelog entry package writes is the
\* version declared in the metadata.
C16_ChangelogVersionDeclared ==
    (op = "package" /\ changelog # NoEntry /\ ~revision_data.declared) =>
        /\ changelog.suffix.empty
        /\ changelog.ver = DebVer

(***************************************************************************)
(* Properties of the signatures of a patch                                 *)
(***************************************************************************)
\* Bit i of n.
Bit(n, i) == (n \div (2^i)) % 2

\* The orders the members of a list of n names can be processed in.
Orders ==
    [n \in 0..Cardinality(SignedNames) |->
        {p \in [1..n -> 1..n] : \A i, j \in 1..n : p[i] = p[j] => i = j}]

\* __sign_and_pack has written the mdsum signature file.
Signed == op \in {"build_patch", "__sign_and_pack"} /\ signature # {}

\* C17: the mdsum signature is the exclusive or of the digests of the
\* members folded into an accumulator of all ones: each of its bits is set
\* exactly when an even number of members have that bit set in their
\* digest; and folding the members in any other order gives the same value.
C17_MdSumIsXorFold ==
    Signed =>
        LET fl == FileList(metadata)
        IN  \A sig \in signature :
            /\ sig \in 0..AllOnes
            /\ \A i \in 0..(DigestBits - 1) :
                Bit(sig, i) = 1 <=>
                    Cardinality({k \in 1..Len(fl) :
                                    Bit(GetMd5(contents[fl[k]]), i) = 1}) % 2 = 0
            /\ \A p \in Orders[Len(fl)] :
                MdSum([k \in 1..Len(fl) |-> fl[p[k]]], contents, AllOnes) = sig

\* A patch with both install scripts was signed, its four signed members
\* having three different contents at least.
C17_Witness ==
    /\ Signed
    /\ Len(FileList(metadata)) = 4
    /\ Cardinality({contents[n] : n \in SignedNames}) >= 3


\* The fetch of build_patch (lines 74-75) ran in this call.
FetchRan == \E k \in 1..Len(ran) : ran[k] = "fetch_debs"

\* The bundle build_patch wrote: the files of the .patch file.
BundleWritten == op = "build_patch" /\ patch_full_path # NotWritten

\* C18: for every bundle build_patch produced, the mdsum signature depends
\* on the content of every other member of the bundle: the same run with
\* another content for one member that is not a signature file writes a
\* different signature value.
C18_SignatureCoversEveryMember ==
    BundleWritten =>
        \A n \in patch_full_path \ {"signature", "signature.v2"} :
            \A v \in Digests \ {contents[n]} :
                MdSum(FileList(metadata), [contents EXCEPT ![n] = v], AllOnes)
                    \notin signature

\* C19: a call of build_patch that is over either raised or returned the
\* path of a bundle it wrote; with an empty download area after the fetch
\* it raised and wrote no bundle.
C19_RaisesOrReturnsBundlePath ==
    (op = "build_patch" /\ pc = "done") =>
        /\ \/ outcome = "raised"
           \/ outcome = "returned" /\ result = "path" /\ patch_full_path # NotWritten
        /\ (FetchRan /\ dl_dir = {}) =>
                outcome = "raised" /\ patch_full_path = NotWritten

\* C20: when 'software' is among the packages and the download area holds
\* no software deb after the fetch, or one of the embedded files was not
\* found in it, build_patch raised and wrote neither a signature file nor
\* a bundle.
C20_MissingSoftwareRaises ==
    (/\ op = "build_patch"
     /\ pc = "done"
     /\ metadata.software
     /\ \/ FetchRan /\ "software_1.0.deb" \notin dl_dir
        \/ failure.why = "not found") =>
        /\ outcome = "raised"
        /\ tmpdir \cap {"signature", "signature.v2"} = {}
        /\ patch_full_path = NotWritten

\* C21: when build_patch is over, returned or raised, the temporary folder
\* it made for the scripts of the software deb (line 113) is removed.
C21_TmpFolderRemoved ==
    (op = "build_patch" /\ pc = "done") => tmp_folder # "exists"

\* extract_tarball chose how to run tar on the tarball it read.
TarChosen == op = "extract_tarball" /\ strip_components # "none"

\* The distinct top-level names of the members of a tarball, and whether a
\* member lies beneath a top-level name.
TopLevelNames(tb) == {p[1] : p \in tb}
HasEntryBeneath(tb) == \E p \in tb : Len(p) > 1 /\ p[2] # ""

\* C22: extract_tarball strips the first path component exactly when all
\* the members of the tarball share one top-level name and some member lies
\* beneath it; a tarball with more than one top-level name is extracted as
\* it is into the source directory.
C22_StripsIffSingleTopdir ==
    TarChosen =>
        /\ strip_components = "strip" <=>
                (Cardinality(TopLevelNames(tarball)) = 1 /\ HasEntryBeneath(tarball))
        /\ (Cardinality(TopLevelNames(tarball)) > 1 /\ outcome = "returned") =>
                (strip_components = "flat" /\ srcdir = tarball)
        /\ (strip_components = "strip" /\ outcome = "returned") =>
                srcdir = {Tail(p) : p \in {q \in tarball : Len(q) > 1 /\ q[2] # ""}}

\* A tarball of a directory, its entry and a file beneath it was extracted
\* stripped.
C22_Witness ==
    /\ TarChosen
    /\ outcome = "returned"
    /\ tarball = {<<"foo", "">>, <<"foo", "a">>}
    /\ strip_components = "strip"
    /\ srcdir = {<<"a">>}

\* The operations of Parser that change the process working directory.
ParserOps == {"download", "package", "dummy_package"} \cup PatchMethods

\* An operation of Parser returned normally, or a method package called
\* returned normally to it.
ReturnedNormally ==
    /\ op \in ParserOps
    /\ \/ outcome = "returned"
       \/ op = "package" /\ pc = "todo" /\ ran # <<>>

\* C23: on every normal return of an operation of Parser that changes the
\* process working directory, and of every method package calls, the
\* working directory is the one at entry.
C23_ReturnRestoresCwd == ReturnedNormally => cwd = cwd0

\* package returned after run_dl_hook worked inside packdir, having been
\* entered in another directory than the caller's first one.
C23_Witness ==
    /\ op = "package"
    /\ outcome = "returned"
    /\ \E k \in 1..Len(ran) : ran[k] = "run_dl_hook"
    /\ cwd0 # CallerDir
    /\ cwd = cwd0

\* build_patch returned having written a bundle.
BuiltPatch == BundleWritten /\ outcome = "returned"

\* The members every bundle has, and the install scripts the metadata
\* declare.
FixedMembers == {"metadata.tar", "software.tar", "signature", "signature.v2"}
DeclaredScripts ==
    (IF metadata.pre_install THEN {"pre-install.sh"} ELSE {})
    \cup (IF metadata.post_install THEN {"post-install.sh"} ELSE {})

\* The names a file of the software deb that ends with f can have in the
\* bundle.
NamesEndingWith(f) == {BaseName(member) : member \in {n \in DebMemberNames : EndsWith(n, f)}}

C25_NoHandlerLeftOver ==
    (pc \in {"idle", "done"}) => handlers = 0

====
